---- MODULE Spec2Model ----
(***************************************************************************)
(* og-audio-dl worker (src/src/worker.js): the /api/info request handler,  *)
(* its rate limiter, response cache, URL validator and tag extractor.      *)
(*                                                                         *)
(* JavaScript strings are TLA+ strings; the JavaScript value null is the   *)
(* string NULL, which none of the modelled inputs contains.  Times are     *)
(* milliseconds as returned by Date.now().                                 *)
(***************************************************************************)
EXTENDS Integers, Sequences, FiniteSets, TLC

VARIABLES
    now,            \* Date.now()
    ticks,          \* number of clock advances so far (bounds the run)
    rateLimitMap,   \* worker.js:16  Map ip -> {start, count}
    cache,          \* worker.js:31  Map url -> {data, time}
    h,              \* in-flight invocations of the router / handleInfo
    started,        \* number of requests received so far (bounds the run)
    lastCall,       \* history: per url, the most recently completed extractAudioInfo call
    rl,             \* history: per ip, the window bookkeeping of the rate-limiter claims
    inp,            \* input of the pure function under test (pure-function specifications)
    out             \* its result

vars == <<now, ticks, rateLimitMap, cache, h, started, lastCall, rl, inp, out>>

NULL == "(null)"

\* ------------------------------------------------------------------------
\* Bounds of the model
\* ------------------------------------------------------------------------
MaxTicks == 3        \* clock advances per run
MaxCount == 17       \* cap of a rate-limit entry's count in the rate-limiter runs
MaxRequests == 2     \* requests per run of the worker
Handlers == {1, 2}   \* requests in flight at once
ClientIps == {"203.0.113.7", "unknown"}

\* ------------------------------------------------------------------------
\* String helpers (String.prototype.* as used by worker.js)
\* ------------------------------------------------------------------------
Min(S) == CHOOSE x \in S : \A y \in S : x <= y
Max(S) == CHOOSE x \in S : \A y \in S : x >= y

\* the first (last) position in a..b where P holds, 0 if there is none
FirstPos(a, b, P(_)) ==
    IF \E i \in a..b : P(i)
    THEN CHOOSE i \in a..b : P(i) /\ \A j \in a..(i - 1) : ~P(j)
    ELSE 0
LastPos(a, b, P(_)) ==
    IF \E i \in a..b : P(i)
    THEN CHOOSE i \in a..b : P(i) /\ \A j \in (i + 1)..b : ~P(j)
    ELSE 0

At(s, i) == IF i >= 1 /\ i <= Len(s) THEN SubSeq(s, i, i) ELSE ""
From(s, i) == IF i <= Len(s) THEN SubSeq(s, i, Len(s)) ELSE ""
StartsWithAt(s, i, lit) ==
    /\ i >= 1
    /\ i + Len(lit) - 1 <= Len(s)
    /\ SubSeq(s, i, i + Len(lit) - 1) = lit
StartsWith(s, lit) == StartsWithAt(s, 1, lit)

\* s.indexOf(lit, from - 1) + 1: the first position >= from where lit occurs, 0 if none
IndexOf(s, lit, from) ==
    FirstPos(from, Len(s) - Len(lit) + 1, LAMBDA i : StartsWithAt(s, i, lit))
Includes(s, lit) == IndexOf(s, lit, 1) # 0

UpperLetters == "ABCDEFGHIJKLMNOPQRSTUVWXYZ"
LowerLetters == "abcdefghijklmnopqrstuvwxyz"
Digits == "0123456789"
InChars(c, set) == \E i \in 1..Len(set) : At(set, i) = c
LowerAt(c, i) == IF i = 0 THEN c ELSE At(LowerLetters, i)
LowerChar(c) ==
    LowerAt(c, FirstPos(1, Len(UpperLetters), LAMBDA k : At(UpperLetters, k) = c))
\* String.prototype.toLowerCase, by halves
RECURSIVE ToLowerCase(_)
ToLowerCase(s) ==
    IF Len(s) = 0 THEN ""
    ELSE IF Len(s) = 1 THEN LowerChar(s)
    ELSE ToLowerCase(SubSeq(s, 1, Len(s) \div 2))
            \o ToLowerCase(SubSeq(s, (Len(s) \div 2) + 1, Len(s)))
AllIn(s, set) == \A i \in 1..Len(s) : InChars(At(s, i), set)
IsDigit(c) == InChars(c, Digits)
IsAlpha(c) == InChars(c, UpperLetters) \/ InChars(c, LowerLetters)

\* the length of the run that starts at s[i] and ends before position e (0: at the end of s)
RunTo(s, i, e) == IF i > Len(s) THEN 0 ELSE IF e = 0 THEN Len(s) - i + 1 ELSE e - i
\* the length of the longest run of characters outside `stop` that starts at s[i]
RunLen(s, i, stop) ==
    RunTo(s, i, FirstPos(i, Len(s), LAMBDA k : InChars(At(s, k), stop)))
\* the length of the longest run of characters of `set` that starts at s[i]
RunLenIn(s, i, set) ==
    RunTo(s, i, FirstPos(i, Len(s), LAMBDA k : ~InChars(At(s, k), set)))

DigitVal(c) == (CHOOSE i \in 1..10 : At(Digits, i) = c) - 1
RECURSIVE DecStr(_)
DecStr(n) == IF n < 10 THEN At(Digits, n + 1) ELSE DecStr(n \div 10) \o At(Digits, (n % 10) + 1)

\* ------------------------------------------------------------------------
\* Rate limiting (per-IP, in-memory)            worker.js:13-27
\* ------------------------------------------------------------------------
RATE_LIMIT_WINDOW == 60000
RATE_LIMIT_MAX == 15

\* the mutants of checkRateLimit used to show the claims depend on it
RateLimitResetsBuggy(m, ip, t) ==
    IF ip \notin DOMAIN m THEN TRUE ELSE t - m[ip].start >= RATE_LIMIT_WINDOW
RateLimitAfterBuggy(m, ip, t) ==
    IF (IF ip \notin DOMAIN m THEN TRUE ELSE t - m[ip].start > RATE_LIMIT_WINDOW)
    THEN [k \in DOMAIN m \cup {ip} |-> IF k = ip THEN [start |-> t, count |-> 1] ELSE m[k]]
    ELSE IF m[ip].count >= RATE_LIMIT_MAX
         THEN m
         ELSE [m EXCEPT ![ip].count = @ + 1]

\* worker.js:21  !entry || now - entry.start > RATE_LIMIT_WINDOW
RateLimitResets(m, ip, t) ==
    IF ip \notin DOMAIN m THEN TRUE ELSE t - m[ip].start > RATE_LIMIT_WINDOW

\* the map after checkRateLimit(ip) at time t    worker.js:21-25
RateLimitAfter(m, ip, t) ==
    IF RateLimitResets(m, ip, t)
    THEN [k \in DOMAIN m \cup {ip} |-> IF k = ip THEN [start |-> t, count |-> 1] ELSE m[k]]
    ELSE [m EXCEPT ![ip].count = @ + 1]

\* a limiter that compares the count before adding the call to it
checkRateLimitBuggy(m, ip, t) ==
    IF RateLimitResets(m, ip, t) THEN TRUE ELSE m[ip].count <= RATE_LIMIT_MAX

\* the value checkRateLimit(ip) returns at time t    worker.js:23,26
checkRateLimit(m, ip, t) ==
    IF RateLimitResets(m, ip, t) THEN TRUE ELSE m[ip].count + 1 <= RATE_LIMIT_MAX

\* ------------------------------------------------------------------------
\* Response cache (in-memory, 5 min TTL)        worker.js:29-49
\* ------------------------------------------------------------------------
CACHE_TTL == 5 * 60000
CACHE_SWEEP_SIZE == 200

\* an entry still served when it is exactly CACHE_TTL old
CacheFreshBuggy(c, url, t) == IF url \in DOMAIN c THEN t - c[url].time <= CACHE_TTL ELSE FALSE

\* worker.js:35  entry && Date.now() - entry.time < CACHE_TTL
CacheFresh(c, url, t) == IF url \in DOMAIN c THEN t - c[url].time < CACHE_TTL ELSE FALSE

\* the value getCached(url) returns at time t: the stored data, or NULL
getCached(c, url, t) == IF CacheFresh(c, url, t) THEN c[url].data ELSE NULL

\* the map after getCached(url) at time t: a stale entry is deleted   worker.js:36
CacheAfterGet(c, url, t) ==
    IF url \in DOMAIN c /\ ~CacheFresh(c, url, t)
    THEN [k \in DOMAIN c \ {url} |-> c[k]]
    ELSE c

\* a sweep that also deletes an entry exactly CACHE_TTL old
SweepDeletesBuggy(c, k, t) == t - c[k].time >= CACHE_TTL

\* worker.js:46  now - v.time > CACHE_TTL
SweepDeletes(c, k, t) == t - c[k].time > CACHE_TTL

\* a store keyed by the audio URL instead of the page URL
setCacheByAudioUrl(c, url, data, t) ==
    [k \in DOMAIN c \cup {data.audioUrl} |->
        IF k = data.audioUrl THEN [data |-> data, time |-> t] ELSE c[k]]

\* a store that keeps the entry a key already has
setCacheBuggy(c, url, data, t) ==
    IF url \in DOMAIN c THEN c
    ELSE [k \in DOMAIN c \cup {url} |-> IF k = url THEN [data |-> data, time |-> t] ELSE c[k]]

\* the map after setCache(url, data) at time t   worker.js:40-49
setCache(c, url, data, t) ==
    LET c1 == [k \in DOMAIN c \cup {url} |->
                  IF k = url THEN [data |-> data, time |-> t] ELSE c[k]]
    IN IF Cardinality(DOMAIN c1) > CACHE_SWEEP_SIZE
       THEN [k \in {k \in DOMAIN c1 : ~SweepDeletes(c1, k, t)} |-> c1[k]]
       ELSE c1

\* ------------------------------------------------------------------------
\* State shared by the specifications
\* ------------------------------------------------------------------------
EmptyMap == [k \in {} |-> NULL]
NoRequest == [pc |-> "idle"]
NoWindow == [windows |-> 0, opened |-> 0, k |-> 0, admitted |-> TRUE]

\* Date.now() advances by d ms
Tick(d) ==
    /\ ticks < MaxTicks
    /\ now' = now + d
    /\ ticks' = ticks + 1
    /\ UNCHANGED <<rateLimitMap, cache, h, started, lastCall, rl, inp, out>>

\* The bookkeeping the rate-limiter claims speak of, kept beside the map: the
\* time the client's current window opened, the number of its calls since then
\* (this one included) and whether this call was admitted.
RlAfterCall(g, t, admitted) ==
    IF g.windows = 0 \/ t - g.opened > RATE_LIMIT_WINDOW
    THEN [windows |-> g.windows + 1, opened |-> t, k |-> 1, admitted |-> admitted]
    ELSE [g EXCEPT !.k = @ + 1, !.admitted = admitted]

\* ------------------------------------------------------------------------
\* SpecRateLimit: checkRateLimit called by two clients as time passes
\* ------------------------------------------------------------------------
InitRateLimit ==
    /\ now = 0
    /\ ticks = 0
    /\ rateLimitMap = EmptyMap
    /\ cache = EmptyMap
    /\ h = [i \in Handlers |-> NoRequest]
    /\ started = 0
    /\ lastCall = EmptyMap
    /\ rl = [ip \in ClientIps |-> NoWindow]
    /\ inp = NULL
    /\ out = NULL

CheckRateLimitCall(ip) ==
    /\ IF RateLimitResets(rateLimitMap, ip, now) THEN TRUE ELSE rateLimitMap[ip].count < MaxCount
    /\ rateLimitMap' = RateLimitAfter(rateLimitMap, ip, now)
    /\ rl' = [rl EXCEPT ![ip] = RlAfterCall(@, now, checkRateLimit(rateLimitMap, ip, now))]
    /\ UNCHANGED <<now, ticks, cache, h, started, lastCall, inp, out>>

RateLimitTick == \E d \in {1, RATE_LIMIT_WINDOW - 1} : Tick(d)
RateLimitCall == \E ip \in ClientIps : CheckRateLimitCall(ip)

NextRateLimit == RateLimitCall \/ RateLimitTick

SpecRateLimit == InitRateLimit /\ [][NextRateLimit]_vars

\* C1: counted from the call that opens a client's window (its first call, or
\* the first call with now - windowStart > 60000), exactly the first 15 calls
\* made while now - windowStart <= 60000 are admitted and every later one in
\* that window is rejected; the call that opens a window is admitted and
\* leaves the entry with count = 1.
C1_FifteenPerWindow ==
    \A ip \in ClientIps :
        rl[ip].k > 0 =>
            /\ ip \in DOMAIN rateLimitMap
            /\ rl[ip].admitted = (rl[ip].k <= RATE_LIMIT_MAX)
            /\ rl[ip].k = 1 => rateLimitMap[ip] = [start |-> rl[ip].opened, count |-> 1]

\* a client whose window rolled over is rejected again on the 16th call of its second window
C1_Witness ==
    \E ip \in ClientIps :
        /\ rl[ip].windows = 2
        /\ rl[ip].k = RATE_LIMIT_MAX + 1
        /\ ~rl[ip].admitted

\* C2: every call within a window (admitted or rejected) adds exactly 1 to the
\* client's count and keeps windowStart; windowStart changes only on a call
\* with now - windowStart > 60000; a client that has been rejected is not
\* admitted again before its window rolls over; nothing but the client's own
\* call changes its entry.
C2_RejectedCallsCount ==
    [][\A ip \in ClientIps :
        IF rl'[ip] = rl[ip]
        THEN /\ (ip \in DOMAIN rateLimitMap') = (ip \in DOMAIN rateLimitMap)
             /\ ip \in DOMAIN rateLimitMap => rateLimitMap'[ip] = rateLimitMap[ip]
        ELSE IF ip \in DOMAIN rateLimitMap /\ now - rateLimitMap[ip].start <= RATE_LIMIT_WINDOW
             THEN /\ rateLimitMap'[ip].count = rateLimitMap[ip].count + 1
                  /\ rateLimitMap'[ip].start = rateLimitMap[ip].start
                  /\ ~rl[ip].admitted => ~rl'[ip].admitted
             ELSE rateLimitMap'[ip] = [start |-> now, count |-> 1]
      ]_vars

\* a rejected call was recorded: the count has passed the maximum by two
C2_Witness ==
    \E ip \in ClientIps :
        /\ ip \in DOMAIN rateLimitMap
        /\ rateLimitMap[ip].count = RATE_LIMIT_MAX + 2
        /\ ~rl[ip].admitted

\* ------------------------------------------------------------------------
\* new URL(url): the parts of the WHATWG URL parser that worker.js reads
\* (protocol, hostname, pathname).  Hosts are taken in their serialised form:
\* a dotted-decimal IPv4 address and a compressed, bracketed IPv6 address are
\* returned as written, a domain name is lower-cased.
\* ------------------------------------------------------------------------
SchemeChars == UpperLetters \o LowerLetters \o Digits \o "+-."
HexColonChars == "0123456789abcdefABCDEF:."
ForbiddenHostChars == " #/:<>?@[\\]^|%"
SpecialSchemes == {"http", "https", "ftp", "ws", "wss", "file"}

FailedUrl == [ok |-> FALSE, protocol |-> "", hostname |-> "", pathname |-> ""]

\* the last position of character c in s, 0 if none
LastIndexOfChar(s, c) == LastPos(1, Len(s), LAMBDA i : At(s, i) = c)

\* host[:port] of a special URL's authority, credentials removed
HostOk(host) ==
    IF StartsWith(host, "[")
    THEN /\ IndexOf(host, "]", 1) = Len(host)
         /\ Len(host) > 2
         /\ AllIn(SubSeq(host, 2, Len(host) - 1), HexColonChars)
    ELSE /\ host # ""
         /\ \A i \in 1..Len(host) : ~InChars(At(host, i), ForbiddenHostChars)
PortOk(port) == AllIn(port, Digits) /\ Len(port) <= 5
HostPort(host, port) == [ok |-> HostOk(host) /\ PortOk(port), hostname |-> ToLowerCase(host)]
\* the position of the colon before the port, 0 if none (close: of the "]" of an IPv6 host)
ColonAfter(hp, close) == IF close = 0 THEN 0 ELSE IndexOf(hp, ":", close)
PortColon(hp) ==
    IF StartsWith(hp, "[") THEN ColonAfter(hp, IndexOf(hp, "]", 1)) ELSE IndexOf(hp, ":", 1)
SplitHostPort(hp, colon) ==
    IF colon = 0 THEN HostPort(hp, "")
    ELSE HostPort(SubSeq(hp, 1, colon - 1), From(hp, colon + 1))
ParseHostPort(hp) == SplitHostPort(hp, PortColon(hp))

\* a special URL parsed: host and port checked, the path defaulted to "/"
SpecialUrl(scheme, hp, path) ==
    IF scheme # "file" /\ ~hp.ok THEN FailedUrl
    ELSE [ok |-> TRUE,
          protocol |-> scheme \o ":",
          hostname |-> hp.hostname,
          pathname |-> IF path = "" THEN "/" ELSE path]
\* authority: up to the first of / \ ? #, credentials end at its last @;
\* tail: the path, up to the first of ? #
ParseAuthority(scheme, authority, tail) ==
    SpecialUrl(scheme,
               ParseHostPort(From(authority, LastIndexOfChar(authority, "@") + 1)),
               SubSeq(tail, 1, RunLen(tail, 1, "?#")))
SplitAuthority(scheme, after, alen) ==
    ParseAuthority(scheme, SubSeq(after, 1, alen), From(after, alen + 1))
\* rest: what follows "scheme:"; a special scheme skips any run of / and \
AfterScheme(scheme, rest) ==
    IF scheme \in SpecialSchemes
    THEN SplitAuthority(scheme, From(rest, RunLenIn(rest, 1, "/\\") + 1),
                        RunLen(From(rest, RunLenIn(rest, 1, "/\\") + 1), 1, "/\\?#"))
    ELSE [ok |-> TRUE, protocol |-> scheme \o ":", hostname |-> "", pathname |-> rest]
\* n: the length of the run before the first of : / ? # @ [ ] \ and space
SchemeOf(u, n) ==
    IF /\ n >= 1
       /\ At(u, n + 1) = ":"
       /\ IsAlpha(At(u, 1))
       /\ AllIn(SubSeq(u, 1, n), SchemeChars)
    THEN AfterScheme(ToLowerCase(SubSeq(u, 1, n)), From(u, n + 2))
    ELSE FailedUrl
ParseUrl(u) == SchemeOf(u, RunLen(u, 1, ":/?#@[]\\ "))

\* ------------------------------------------------------------------------
\* validateUrl                                   worker.js:251-270
\* ------------------------------------------------------------------------
InvalidUrl == "Invalid URL"
OnlyHttp == "Only HTTP/HTTPS URLs are supported"
PrivateAddress == "Private or reserved addresses are not allowed"

\* a mutant: the 10.* block is missing from the pattern
PrivateHostPatternBuggy(host) ==
    \/ StartsWith(host, "127.")
    \/ StartsWith(host, "192.168.")
    \/ StartsWith(host, "0.")
    \/ StartsWith(host, "169.254.")

\* worker.js:262
\* /^(127\.|10\.|192\.168\.|172\.(1[6-9]|2\d|3[01])\.|0\.|169\.254\.|::1|fc|fd|fe80)/.test(host)
PrivateHostPattern(host) ==
    \/ StartsWith(host, "127.")
    \/ StartsWith(host, "10.")
    \/ StartsWith(host, "192.168.")
    \/ /\ StartsWith(host, "172.")
       /\ \/ At(host, 5) = "1" /\ InChars(At(host, 6), "6789")
          \/ At(host, 5) = "2" /\ Len(host) >= 6 /\ IsDigit(At(host, 6))
          \/ At(host, 5) = "3" /\ InChars(At(host, 6), "01")
       /\ At(host, 7) = "."
    \/ StartsWith(host, "0.")
    \/ StartsWith(host, "169.254.")
    \/ StartsWith(host, "::1")
    \/ StartsWith(host, "fc")
    \/ StartsWith(host, "fd")
    \/ StartsWith(host, "fe80")

\* worker.js:259-267
ValidateHost(host) ==
    IF PrivateHostPattern(host) THEN PrivateAddress
    ELSE IF host = "localhost" \/ host = "[::1]" THEN PrivateAddress
    ELSE NULL
\* worker.js:255-259
ValidateParsed(parsed) ==
    IF ~parsed.ok THEN InvalidUrl
    ELSE IF parsed.protocol # "https:" /\ parsed.protocol # "http:" THEN OnlyHttp
    ELSE ValidateHost(ToLowerCase(parsed.hostname))
validateUrl(url) == ValidateParsed(ParseUrl(url))

\* ------------------------------------------------------------------------
\* SpecValidate: validateUrl applied to URLs written from a description
\* ------------------------------------------------------------------------
Pending == "(pending)"

\* the blocks of worker.js:262 as numbers: the first two octets of a.b.c.d
PrivateV4(a, b) ==
    \/ a \in {127, 10, 0}
    \/ a = 192 /\ b = 168
    \/ a = 172 /\ b >= 16 /\ b <= 31
    \/ a = 169 /\ b = 254

FirstOctets == {0, 1, 9, 10, 11, 100, 126, 127, 128, 169, 170, 172, 173, 192, 193}
SecondOctets == {0, 1, 15, 16, 17, 29, 31, 32, 167, 168, 169, 253, 254, 255}

V4Urls ==
    {[kind |-> "ipv4", a |-> a, b |-> b, private |-> PrivateV4(a, b),
      text |-> s \o "://" \o DecStr(a) \o "." \o DecStr(b) \o "." \o cd \o port \o path] :
        s \in {"http", "https"}, a \in FirstOctets, b \in SecondOctets,
        cd \in {"0.1", "0.5"}, port \in {"", ":8080"}, path \in {"/", "/x"}}

NameUrls ==
    {[kind |-> "name", a |-> 0, b |-> 0, private |-> x[2],
      text |-> s \o "://" \o x[1] \o port \o path] :
        s \in {"http", "https", "HTTPS"},
        x \in {<<"localhost", TRUE>>, <<"LOCALHOST", TRUE>>, <<"user@localhost", TRUE>>,
               <<"example.com", FALSE>>, <<"Example.COM", FALSE>>, <<"suno.com", FALSE>>,
               <<"localhost.example.com", FALSE>>},
        port \in {"", ":8080"}, path \in {"/", "/page", ""}}

V6Urls ==
    {[kind |-> "ipv6", a |-> 0, b |-> 0, private |-> x[2],
      text |-> s \o "://" \o x[1] \o port \o "/"] :
        s \in {"http", "https"},
        x \in {<<"[::1]", TRUE>>, <<"[fc00::1]", TRUE>>, <<"[fd00::1]", TRUE>>,
               <<"[fd12:3456:789a::1]", TRUE>>, <<"[fe80::1]", TRUE>>,
               <<"[2001:db8::1]", FALSE>>, <<"[2606:4700::1111]", FALSE>>},
        port \in {"", ":8080"}}

OtherSchemeUrls ==
    {[kind |-> "scheme", a |-> 0, b |-> 0, private |-> FALSE, text |-> t] :
        t \in {"ftp://example.com/", "file:///etc/passwd", "javascript:alert(1)",
               "mailto:a@example.com", "ws://example.com/", "data:text/html,x",
               "gopher://10.0.0.5/", "FTP://localhost/"}}

UnparsableUrls ==
    {[kind |-> "bad", a |-> 0, b |-> 0, private |-> FALSE, text |-> t] :
        t \in {"", "example.com", "example.com/page", "not a url", "http://", "https:///",
               "://example.com", "//example.com/", "http://exa mple.com/",
               "http://example.com:port/", "192.168.1.5:80/x", "http://[::1/"}}

\* public DNS names: the first set begins like an alternative of the
\* pattern at worker.js:262, the second does not
PatternLikeNames ==
    {"fcbarcelona.com", "fd.io", "FDroid.org", "fe80.example.org", "10.example.com",
     "127.example.com", "0.pool.example.org", "192.168.example.com", "172.16.example.com",
     "169.254.example.com"}
PlainNames ==
    {"example.com", "www.fc2.com", "facebook.com", "100.example.com", "f-droid.org",
     "fe8.example.org", "172.32.example.com", "1270.example.com"}
PublicUrl(s, name, path) == s \o "://" \o name \o path
PublicNameUrls ==
    {[kind |-> "public", a |-> 0, b |-> 0, private |-> FALSE, text |-> PublicUrl(s, name, path)] :
        s \in {"http", "https"}, name \in PatternLikeNames \cup PlainNames,
        path \in {"/", "/page?x=1"}}

UrlInputs ==
    V4Urls \cup NameUrls \cup V6Urls \cup OtherSchemeUrls \cup UnparsableUrls \cup PublicNameUrls

InitValidate ==
    /\ now = 0
    /\ ticks = 0
    /\ rateLimitMap = EmptyMap
    /\ cache = EmptyMap
    /\ h = [i \in Handlers |-> NoRequest]
    /\ started = 0
    /\ lastCall = EmptyMap
    /\ rl = [ip \in ClientIps |-> NoWindow]
    /\ inp \in UrlInputs
    /\ out = Pending

ApplyValidate ==
    /\ out = Pending
    /\ out' = validateUrl(inp.text)
    /\ UNCHANGED <<now, ticks, rateLimitMap, cache, h, started, lastCall, rl, inp>>

NextValidate == ApplyValidate

SpecValidate == InitValidate /\ [][NextValidate]_vars

\* C5: validateUrl rejects every URL whose hostname is localhost or a dotted
\* IPv4 literal in 127.*, 10.*, 192.168.*, 172.16-31.*, 169.254.* or 0.*,
\* every URL with a scheme other than http/https, and every unparsable
\* string; it accepts https://example.com/page.
C5_ValidatorRejects ==
    out # Pending =>
        /\ inp.kind \in {"ipv4", "name"} /\ inp.private => out = PrivateAddress
        /\ inp.kind = "scheme" => out = OnlyHttp
        /\ inp.kind = "bad" => out = InvalidUrl
        /\ inp.text = "https://example.com/page" => out = NULL

\* http://10.0.0.5/ has been validated and rejected
C5_Witness ==
    /\ inp.text = "http://10.0.0.5/"
    /\ out = PrivateAddress

\* C6: validateUrl rejects every URL whose host is an IPv6 literal that is
\* loopback (::1), unique-local (fc00::/7) or link-local (fe80::/10), the
\* hostname being in the bracketed form the URL parser produces.
C6_RejectsPrivateIpv6 ==
    out # Pending /\ inp.kind = "ipv6" /\ inp.private => out # NULL

\* ------------------------------------------------------------------------
\* Tag extraction                                 worker.js:51-98
\* ------------------------------------------------------------------------
META_TAGS == <<"og:audio", "og:audio:url", "og:audio:secure_url", "twitter:player:stream">>
TITLE_TAGS == <<"og:title", "twitter:title">>

Quotes == "\"'"
WhiteSpace == " \t\n\r\f"
IsSpace(c) == InChars(c, WhiteSpace)

\* no '>' among s[i..j]
NoGt(s, i, j) == \A k \in i..j : At(s, k) # ">"

\* (?:property|name)=["']tag["'] matched at position q of the lower-cased
\* text: the position after the closing quote, 0 when there is no match
KeyWordLen(low, q) ==
    IF StartsWithAt(low, q, "property=") THEN 9
    ELSE IF StartsWithAt(low, q, "name=") THEN 5 ELSE 0
KeyEndAfter(low, q, tag, kw) ==
    IF /\ kw # 0
       /\ InChars(At(low, q + kw), Quotes)
       /\ StartsWithAt(low, q + kw + 1, tag)
       /\ InChars(At(low, q + kw + 1 + Len(tag)), Quotes)
    THEN q + kw + 1 + Len(tag) + 1
    ELSE 0
KeyEnd(low, q, tag) == KeyEndAfter(low, q, tag, KeyWordLen(low, q))

\* content=["']([^"']+)["'] matched at position r: the length of the capture
\* (which starts at r + 9), 0 when there is no match
ContentRun(s, low, r, n) ==
    IF /\ StartsWithAt(low, r, "content=")
       /\ InChars(At(s, r + 8), Quotes)
       /\ n >= 1
       /\ InChars(At(s, r + 9 + n), Quotes)
    THEN n
    ELSE 0
ContentLen(s, low, r) == ContentRun(s, low, r, RunLen(s, r + 9, Quotes))

\* the matches that start leftmost; of these, those whose second (third)
\* position is the greatest: the order in which a backtracking matcher with
\* greedy quantifiers finds its match
Leftmost(T) == {t \in T : \A u \in T : u[1] >= t[1]}
Longest2(T) == {t \in T : \A u \in T : u[2] <= t[2]}
Longest3(T) == {t \in T : \A u \in T : u[3] <= t[3]}
\* the capture of content=["']([^"']+)["'] matched at position r
Capture(s, low, r) == SubSeq(s, r + 9, r + 8 + ContentLen(s, low, r))

\* <meta[^>]+(?:property|name)=["']TAG["'][^>]+content=["']([^"']+)["']
\* the ways to match: <meta at p, the key at q, content= at r
KeyFirstMatches(s, low, tag) ==
    {t \in {p \in 1..Len(s) : StartsWithAt(low, p, "<meta")}
            \X {q \in 1..Len(s) : KeyEnd(low, q, tag) # 0}
            \X {r \in 1..Len(s) : ContentLen(s, low, r) > 0} :
        /\ t[2] >= t[1] + 6
        /\ NoGt(s, t[1] + 5, t[2] - 1)
        /\ t[3] >= KeyEnd(low, t[2], tag) + 1
        /\ NoGt(s, KeyEnd(low, t[2], tag), t[3] - 1)}
KeyFirstCapture(s, low, T) ==
    IF T = {} THEN NULL
    ELSE Capture(s, low, (CHOOSE t \in Longest3(Longest2(Leftmost(T))) : TRUE)[3])
\* html.match(/<meta[^>]+(?:property|name)=["']TAG["'][^>]+content=["']([^"']+)["']/i)
\* the capture of the match a backtracking matcher finds (leftmost <meta, then
\* the longest first [^>]+, then the longest second [^>]+), NULL without a match
MatchKeyFirst(s, low, tag) == KeyFirstCapture(s, low, KeyFirstMatches(s, low, tag))

\* the position after the quote that closes the capture of content= at r
ContentEnd(s, low, r) == r + 9 + ContentLen(s, low, r) + 1
\* the ways to match: <meta at p, content= at r, the key at q
ContentFirstMatches(s, low, tag) ==
    {t \in {p \in 1..Len(s) : StartsWithAt(low, p, "<meta")}
            \X {r \in 1..Len(s) : ContentLen(s, low, r) > 0}
            \X {q \in 1..Len(s) : KeyEnd(low, q, tag) # 0} :
        /\ t[2] >= t[1] + 6
        /\ NoGt(s, t[1] + 5, t[2] - 1)
        /\ t[3] >= ContentEnd(s, low, t[2]) + 1
        /\ NoGt(s, ContentEnd(s, low, t[2]), t[3] - 1)}
ContentFirstCapture(s, low, T) ==
    IF T = {} THEN NULL
    ELSE Capture(s, low, (CHOOSE t \in Longest2(Leftmost(T)) : TRUE)[2])
\* html.match(/<meta[^>]+content=["']([^"']+)["'][^>]+(?:property|name)=["']TAG["']/i)
MatchContentFirst(s, low, tag) ==
    ContentFirstCapture(s, low, ContentFirstMatches(s, low, tag))

\* a, or b when a is null
OrElse(a, b) == IF a # NULL THEN a ELSE b

\* extractMeta(html, tag), low being html lower-cased (the patterns' i flag)
extractMetaLow(s, low, tag) ==
    OrElse(MatchKeyFirst(s, low, tag), MatchContentFirst(s, low, tag))

extractMeta(html, tag) == extractMetaLow(html, ToLowerCase(html), tag)

NoAudio == [audioUrl |-> NULL, foundTag |-> NULL]
\* worker.js:309-312
FoundOr(audioUrl, tag, otherwise) ==
    IF audioUrl # NULL THEN [audioUrl |-> audioUrl, foundTag |-> tag] ELSE otherwise
\* worker.js:304-313  the loop over META_TAGS from index i
RECURSIVE FindAudioFrom(_, _, _)
FindAudioFrom(s, low, i) ==
    IF i > Len(META_TAGS) THEN NoAudio
    ELSE FoundOr(extractMetaLow(s, low, META_TAGS[i]), META_TAGS[i],
                 FindAudioFrom(s, low, i + 1))

FindAudio(html) == FindAudioFrom(html, ToLowerCase(html), 1)

\* ------------------------------------------------------------------------
\* SpecExtract: the audio-tag search applied to pages written from a
\* description (per tag: absent, empty content, either attribute order)
\* ------------------------------------------------------------------------
TagStates == {"absent", "empty", "keyFirst", "contentFirst", "apostrophe"}

\* the content written for the i-th tag
ContentOf(i, st) ==
    IF st = "apostrophe" THEN "https://cdn.x.com/it's-" \o DecStr(i) \o ".mp3"
    ELSE IF st = "empty" THEN ""
    ELSE "https://cdn.x.com/" \o DecStr(i) \o ".mp3"

\* the element written for the i-th tag
MetaElement(i, st) ==
    IF st = "absent" THEN ""
    ELSE IF st = "contentFirst"
    THEN "<meta content='" \o ContentOf(i, st) \o "' name='" \o META_TAGS[i] \o "'>"
    ELSE "<meta property=\"" \o META_TAGS[i] \o "\" content=\"" \o ContentOf(i, st) \o "\">"

RenderPage(states, reversed) ==
    LET e(i) == MetaElement(i, states[i])
    IN "<head>"
       \o (IF reversed THEN e(4) \o e(3) \o e(2) \o e(1) ELSE e(1) \o e(2) \o e(3) \o e(4))
       \o "</head>"

PageInputs ==
    {[states |-> st, reversed |-> rev, text |-> RenderPage(st, rev)] :
        st \in [1..4 -> TagStates], rev \in BOOLEAN}

PendingAudio == [audioUrl |-> Pending, foundTag |-> Pending]

\* the highest-priority tag written with a non-empty content, and that content
ExpectedAudio(states) ==
    LET Present == {i \in 1..4 : states[i] \notin {"absent", "empty"}}
    IN IF Present = {} THEN NoAudio
       ELSE [audioUrl |-> ContentOf(Min(Present), states[Min(Present)]),
             foundTag |-> META_TAGS[Min(Present)]]

InitExtract ==
    /\ now = 0
    /\ ticks = 0
    /\ rateLimitMap = EmptyMap
    /\ cache = EmptyMap
    /\ h = [i \in Handlers |-> NoRequest]
    /\ started = 0
    /\ lastCall = EmptyMap
    /\ rl = [ip \in ClientIps |-> NoWindow]
    /\ inp \in PageInputs
    /\ out = PendingAudio

ApplyFindAudio ==
    /\ out = PendingAudio
    /\ out' = FindAudio(inp.text)
    /\ UNCHANGED <<now, ticks, rateLimitMap, cache, h, started, lastCall, rl, inp>>

NextExtract == ApplyFindAudio

SpecExtract == InitExtract /\ [][NextExtract]_vars

\* C10: for any HTML, extraction returns as audioUrl the content of the
\* highest-priority recognised tag present with a non-empty value, in either
\* attribute order, and sourceTag names that tag; a lower-priority tag is
\* used only when every higher-priority tag is absent or empty.
C10_HighestPriorityTag ==
    out # PendingAudio => out = ExpectedAudio(inp.states)

\* the same on the pages none of whose contents holds a quote character
C10_HighestPriorityTagNoQuote ==
    out # PendingAudio /\ (\A i \in 1..4 : inp.states[i] # "apostrophe")
        => out = ExpectedAudio(inp.states)

\* ------------------------------------------------------------------------
\* Title, artist, entities, filename               worker.js:78-98, 217-246
\* ------------------------------------------------------------------------
\* String.prototype.trim
TrimBetween(s, a, b) == IF a = 0 THEN "" ELSE SubSeq(s, a, b)
Trim(s) ==
    TrimBetween(s, FirstPos(1, Len(s), LAMBDA i : ~IsSpace(At(s, i))),
                   LastPos(1, Len(s), LAMBDA i : ~IsSpace(At(s, i))))

\* s.replace(/from/g, to) for a literal pattern; i is the first occurrence
RECURSIVE ReplaceAll(_, _, _)
ReplaceFrom(s, from, to, i) ==
    IF i = 0 THEN s
    ELSE SubSeq(s, 1, i - 1) \o to \o ReplaceAll(From(s, i + Len(from)), from, to)
ReplaceAll(s, from, to) == ReplaceFrom(s, from, to, IndexOf(s, from, 1))

\* s.replace(/[set]/g, to)
RECURSIVE ReplaceChars(_, _, _)
ReplaceChars(s, set, to) ==
    IF Len(s) = 0 THEN ""
    ELSE IF Len(s) = 1 THEN (IF InChars(s, set) THEN to ELSE s)
    ELSE ReplaceChars(SubSeq(s, 1, Len(s) \div 2), set, to)
            \o ReplaceChars(SubSeq(s, (Len(s) \div 2) + 1, Len(s)), set, to)

\* worker.js:81-84  html.match(/<title[^>]*>([^<]+)<\/title>/i)
\* <title at p, the > that ends [^>]* at g, the capture of n characters after it
TitleGt(html, p) == p + 6 + RunLen(html, p + 6, ">")
TitleLen(html, g) == RunLen(html, g + 1, "<")
TitleCloses(html, low, g, n) ==
    At(html, g) = ">" /\ n >= 1 /\ StartsWithAt(low, g + 1 + n, "</title>")
TitleOpens(html, low, p, g) ==
    StartsWithAt(low, p, "<title") /\ TitleCloses(html, low, g, TitleLen(html, g))
TitleCapture(html, g) == Trim(SubSeq(html, g + 1, g + TitleLen(html, g)))
TitleAt(html, p) == IF p = 0 THEN NULL ELSE TitleCapture(html, TitleGt(html, p))
TitleIn(html, low) ==
    TitleAt(html, FirstPos(1, Len(html), LAMBDA p : TitleOpens(html, low, p, TitleGt(html, p))))
extractTitle(html) == TitleIn(html, ToLowerCase(html))

\* worker.js:230-239
decodeEntities(str) ==
    IF str = NULL \/ str = "" THEN NULL
    ELSE Trim(ReplaceAll(ReplaceAll(ReplaceAll(ReplaceAll(ReplaceAll(str,
            "&#x27;", "'"), "&amp;", "&"), "&lt;", "<"), "&gt;", ">"), "&quot;", "\""))

\* x || null
NullIfEmpty(x) == IF x = NULL \/ x = "" THEN NULL ELSE x

\* worker.js:92-98
\* desc.match(/\bby\s+([^(@]+?)(?:\s*\(@[^)]+\))?[.\s]+(Listen|on\s)/i)
IsWordChar(c) == IsAlpha(c) \/ IsDigit(c) \/ c = "_"
\* [.\s]+(Listen|on\s) matches from position k
ArtistTail(desc, low, k) ==
    \E m \in 1..Len(desc) :
        /\ \A j \in k..(k + m - 1) : InChars(At(desc, j), "." \o WhiteSpace)
        /\ \/ StartsWithAt(low, k + m, "listen")
           \/ StartsWithAt(low, k + m, "on") /\ IsSpace(At(desc, k + m + 2))
\* \s*\(@[^)]+\) matches from position i: the position after it, else 0
\* (ws: where the white space ends, n: the length of [^)]+)
HandleEnd(desc, ws, n) ==
    IF StartsWithAt(desc, ws, "(@") /\ n >= 1 /\ At(desc, ws + 2 + n) = ")"
    THEN ws + 2 + n + 1 ELSE 0
HandleFrom(desc, ws) == HandleEnd(desc, ws, RunLen(desc, ws + 2, ")"))
HandleAt(desc, i) == HandleFrom(desc, i + RunLenIn(desc, i, WhiteSpace))
\* (?:\s*\(@[^)]+\))?[.\s]+(Listen|on\s) matches from position i (g: HandleAt there)
ArtistRestAfter(desc, low, i, g) ==
    (g # 0 /\ ArtistTail(desc, low, g)) \/ ArtistTail(desc, low, i)
ArtistRest(desc, low, i) == ArtistRestAfter(desc, low, i, HandleAt(desc, i))
\* the ways to match: "by" at t[1], the capture from t[2] to t[3]
ArtistMatches(desc, low) ==
    {t \in (1..Len(desc)) \X (1..Len(desc)) \X (1..Len(desc)) :
        /\ StartsWithAt(low, t[1], "by")
        /\ ~IsWordChar(At(desc, t[1] - 1))
        /\ t[2] >= t[1] + 3
        /\ \A j \in (t[1] + 2)..(t[2] - 1) : IsSpace(At(desc, j))
        /\ t[3] >= t[2]
        /\ \A j \in t[2]..t[3] : ~InChars(At(desc, j), "(@")
        /\ ArtistRest(desc, low, t[3] + 1)}
\* of the matches, those whose third position is the least (a lazy quantifier)
Shortest3(T) == {t \in T : \A u \in T : u[3] >= t[3]}
ArtistName(desc, t) == NullIfEmpty(decodeEntities(Trim(SubSeq(desc, t[2], t[3]))))
ArtistCapture(desc, T) ==
    IF T = {} THEN NULL
    ELSE ArtistName(desc, CHOOSE t \in Shortest3(Longest2(Leftmost(T))) : TRUE)
ArtistIn(desc) ==
    IF desc = NULL THEN NULL
    ELSE ArtistCapture(desc, ArtistMatches(desc, ToLowerCase(desc)))
extractArtist(html) == ArtistIn(extractMeta(html, "description"))

\* worker.js:220-225
AudioExtensions == {"mp3", "mp4", "m4a", "wav", "ogg", "flac", "aac", "opus", "wma", "webm"}
BeforeQuery(url, q) == IF q = 0 THEN url ELSE SubSeq(url, 1, q - 1)
\* an extension taken as written
LastExtensionBuggy(path) == From(path, LastIndexOfChar(path, ".") + 1)
LastExtension(path) == ToLowerCase(From(path, LastIndexOfChar(path, ".") + 1))
ValidExtension(ext) == IF ext \in AudioExtensions THEN ext ELSE "mp3"
guessExtension(url) == ValidExtension(LastExtension(BeforeQuery(url, IndexOf(url, "?", 1))))

\* a leading strip that removes one character only
StripLeadingBuggy(s) ==
    IF InChars(At(s, 1), "." \o WhiteSpace) THEN From(s, 2) ELSE s

\* worker.js:244-246
FromOrEmpty(s, a) == IF a = 0 THEN "" ELSE From(s, a)
StripLeading(s) ==
    FromOrEmpty(s, FirstPos(1, Len(s), LAMBDA i : ~InChars(At(s, i), "." \o WhiteSpace)))
StripTrailing(s) ==
    SubSeq(s, 1, LastPos(1, Len(s), LAMBDA i : ~InChars(At(s, i), "." \o WhiteSpace)))
sanitiseFilename(str) == StripTrailing(StripLeading(ReplaceChars(str, "/\\:*?\"<>|", "_")))

\* a title with no fallback
TitleOrAudioBuggy(d) == d

\* worker.js:319-328
TitleOrAudio(d) == IF d = NULL \/ d = "" THEN "audio" ELSE d
ResolveTitleLow(html, low) ==
    TitleOrAudio(decodeEntities(
        OrElse(OrElse(extractMetaLow(html, low, TITLE_TAGS[1]),
                      extractMetaLow(html, low, TITLE_TAGS[2])),
               extractTitle(html))))
ResolveTitle(html) == ResolveTitleLow(html, ToLowerCase(html))

\* worker.js:339-345  the result assembled from the page and the lyrics
FilenameBase(artist, title) ==
    IF artist # NULL
    THEN sanitiseFilename(artist) \o " - " \o sanitiseFilename(title)
    ELSE sanitiseFilename(title)
AudioInfo(url, lyrics, found, title, artist, image) ==
    [audioUrl |-> found.audioUrl,
     title |-> title,
     artist |-> artist,
     lyrics |-> lyrics,
     filename |-> FilenameBase(artist, title) \o "." \o guessExtension(found.audioUrl),
     image |-> image,
     sourceTag |-> found.foundTag,
     pageUrl |-> url]
BuildResult(url, html, lyrics) ==
    AudioInfo(url, lyrics, FindAudio(html), ResolveTitle(html), extractArtist(html),
              extractMeta(html, "og:image"))

\* ------------------------------------------------------------------------
\* Suno lyrics extraction                          worker.js:100-215
\* ------------------------------------------------------------------------
MAX_LYRICS == 20000

\* worker.js:102-109
normaliseSunoEscapes(str) ==
    ReplaceAll(ReplaceAll(ReplaceAll(ReplaceAll(ReplaceAll(str,
        "\\\"", "\""), "\\u003c", "<"), "\\u003e", ">"), "\\u0026", "&"), "\\n", "\n")

\* worker.js:111-119
\* /self\.__next_f\.push\(\[1,"([\s\S]*?)"\]\)<\/script>/g, from position i on:
\* the next match opens at a and its lazy capture ends before the first "])</script> at b
PushOpen == "self.__next_f.push([1,\""
PushClose == "\"])</script>"
PushCloseAfter(html, a) == IndexOf(html, PushClose, a + Len(PushOpen))
NextPush(html, i) ==
    FirstPos(i, Len(html),
             LAMBDA a : StartsWithAt(html, a, PushOpen) /\ PushCloseAfter(html, a) # 0)
RECURSIVE FlightChunksFrom(_, _)
ChunkBetween(html, a, b) ==
    <<normaliseSunoEscapes(SubSeq(html, a + Len(PushOpen), b - 1))>>
        \o FlightChunksFrom(html, b + Len(PushClose))
ChunksAt(html, a) ==
    IF a = 0 THEN <<>> ELSE ChunkBetween(html, a, PushCloseAfter(html, a))
FlightChunksFrom(html, i) == ChunksAt(html, NextPush(html, i))
extractSunoFlightChunks(html) == FlightChunksFrom(html, 1)

\* worker.js:127  /^[a-z0-9]+:/i.test(t), n being the length of the run before the first ":"
HasIdPrefix(t, n) ==
    /\ n >= 1
    /\ At(t, n + 1) = ":"
    /\ AllIn(SubSeq(t, 1, n), UpperLetters \o LowerLetters \o Digits)
\* worker.js:128  t.split('\n').map(l => l.trim()).filter(Boolean).length
NonEmptyLines(t) ==
    Cardinality({i \in {k \in 1..Len(t) : k = 1 \/ At(t, k - 1) = "\n"} :
                    \E j \in i..(i + RunLen(t, i, "\n") - 1) : ~IsSpace(At(t, j))})
\* worker.js:130  (t.match(/[A-Za-z]{2,}/g) ?? []).length
WordMatches(t) ==
    Cardinality({i \in 1..Len(t) :
                    IsAlpha(At(t, i)) /\ ~IsAlpha(At(t, i - 1)) /\ IsAlpha(At(t, i + 1))})
\* worker.js:123-131
LooksLikeTrimmed(t) ==
    IF Len(t) < 80 THEN FALSE
    ELSE IF Includes(t, "{\"") THEN FALSE
    ELSE IF Includes(t, ":[\"$") THEN FALSE
    ELSE IF Includes(t, "\"$L") THEN FALSE
    ELSE IF HasIdPrefix(t, RunLen(t, 1, ":")) THEN FALSE
    ELSE IF NonEmptyLines(t) < 4 THEN FALSE
    ELSE WordMatches(t) >= 20
\* worker.js:121-132
looksLikeSunoLyrics(text) == LooksLikeTrimmed(Trim(text))

\* worker.js:134-150  the scan from position i on (start is where the object opens)
RECURSIVE JsonScan(_, _, _, _, _, _)
JsonScan(src, start, i, depth, inStr, esc) ==
    IF i > Len(src) THEN NULL
    ELSE IF inStr
    THEN IF esc THEN JsonScan(src, start, i + 1, depth, TRUE, FALSE)
         ELSE IF At(src, i) = "\\" THEN JsonScan(src, start, i + 1, depth, TRUE, TRUE)
         ELSE JsonScan(src, start, i + 1, depth, At(src, i) # "\"", FALSE)
    ELSE IF At(src, i) = "\"" THEN JsonScan(src, start, i + 1, depth, TRUE, FALSE)
    ELSE IF At(src, i) = "{" THEN JsonScan(src, start, i + 1, depth + 1, FALSE, FALSE)
    ELSE IF At(src, i) = "}"
         THEN IF depth - 1 = 0 THEN SubSeq(src, start, i)
              ELSE JsonScan(src, start, i + 1, depth - 1, FALSE, FALSE)
    ELSE JsonScan(src, start, i + 1, depth, FALSE, FALSE)

extractJsonObject(src, start) ==
    IF At(src, start) # "{" THEN NULL ELSE JsonScan(src, start, start, 0, FALSE, FALSE)

\* /^\$\d+$/.test(s)
IsPromptToken(s) == Len(s) >= 2 /\ At(s, 1) = "$" /\ AllIn(From(s, 2), Digits)
\* /^\[instrumental\]$/i.test(s)
IsInstrumental(s) == ToLowerCase(s) = "[instrumental]"

\* chunks[k].trim() when there is a k, else what follows
TrimmedOr(chunks, k, otherwise) == IF k # 0 THEN Trim(chunks[k]) ELSE otherwise
\* worker.js:164-165
ResolveFallback(chunks) ==
    TrimmedOr(chunks,
              FirstPos(1, Len(chunks), LAMBDA k : looksLikeSunoLyrics(chunks[k])),
              NULL)
\* worker.js:162-163  ci: the first chunk that holds the clip marker
ResolveBeforeClip(chunks, ci) ==
    IF ci > 1 /\ looksLikeSunoLyrics(chunks[ci - 1]) THEN Trim(chunks[ci - 1])
    ELSE ResolveFallback(chunks)
\* a resolver that looks 8 chunks ahead
ResolveNearBuggy(chunks, ti) ==
    TrimmedOr(chunks,
              IF ti = 0 THEN 0
              ELSE FirstPos(ti + 1, Min({Len(chunks), ti + 8}),
                            LAMBDA k : looksLikeSunoLyrics(chunks[k])),
              ResolveBeforeClip(chunks,
                  FirstPos(1, Len(chunks), LAMBDA k : Includes(chunks[k], "\"clip\":{"))))
\* worker.js:157-161  ti: the first chunk that names the token
ResolveNear(chunks, ti) ==
    TrimmedOr(chunks,
              IF ti = 0 THEN 0
              ELSE FirstPos(ti + 1, Min({Len(chunks), ti + 7}),
                            LAMBDA k : looksLikeSunoLyrics(chunks[k])),
              ResolveBeforeClip(chunks,
                  FirstPos(1, Len(chunks), LAMBDA k : Includes(chunks[k], "\"clip\":{"))))
\* worker.js:155-156
ResolveIn(chunks, id) ==
    ResolveNear(chunks,
                FirstPos(1, Len(chunks),
                         LAMBDA k : Includes(chunks[k], id \o ":T") \/ Includes(chunks[k], id \o ":")))
\* worker.js:152-166
resolveSunoPromptToken(html, token) ==
    IF ~IsPromptToken(token) THEN NULL
    ELSE ResolveIn(extractSunoFlightChunks(html), From(token, 2))

\* ------------------------------------------------------------------------
\* JSON.parse, as far as extractSunoLyrics depends on it    worker.js:177
\* A value is parsed to [ok, next, t, s]: whether the text at position i is a
\* JSON value, the position after it, its type and its text (a string's
\* decoded characters, any other value's source text).
\* ------------------------------------------------------------------------
JsonWs == " \t\n\r"
JsonFail == [ok |-> FALSE, next |-> 0, t |-> "none", s |-> ""]
HexChars == "0123456789abcdefABCDEF"
SkipWs(s, i) == i + RunLenIn(s, i, JsonWs)

\* the characters of a string literal from position i (after the opening quote) on
RECURSIVE JsonChars(_, _, _)
JsonChars(s, i, acc) ==
    IF i > Len(s) THEN JsonFail
    ELSE IF At(s, i) = "\"" THEN [ok |-> TRUE, next |-> i + 1, t |-> "string", s |-> acc]
    ELSE IF InChars(At(s, i), "\n\t\r") THEN JsonFail
    ELSE IF At(s, i) # "\\" THEN JsonChars(s, i + 1, acc \o At(s, i))
    ELSE IF InChars(At(s, i + 1), "\"\\/") THEN JsonChars(s, i + 2, acc \o At(s, i + 1))
    ELSE IF At(s, i + 1) = "n" THEN JsonChars(s, i + 2, acc \o "\n")
    ELSE IF At(s, i + 1) = "t" THEN JsonChars(s, i + 2, acc \o "\t")
    ELSE IF At(s, i + 1) = "r" THEN JsonChars(s, i + 2, acc \o "\r")
    ELSE IF At(s, i + 1) = "u" /\ i + 5 <= Len(s) /\ AllIn(SubSeq(s, i + 2, i + 5), HexChars)
         THEN JsonChars(s, i + 6, acc \o "?")
    ELSE JsonFail

\* -?(0|[1-9]\d*)(\.\d+)?([eE][+-]?\d+)?  from position i: the digits start at a,
\* the fraction (if any) at b, the exponent (if any) at c, its digits at x
NumberEnd(s, i, d) == [ok |-> TRUE, next |-> d, t |-> "number", s |-> SubSeq(s, i, d - 1)]
NumberExponentDigits(s, i, x, n) == IF n = 0 THEN JsonFail ELSE NumberEnd(s, i, x + n)
NumberExponent(s, i, c) ==
    IF InChars(At(s, c), "eE")
    THEN NumberExponentDigits(s, i, IF InChars(At(s, c + 1), "+-") THEN c + 2 ELSE c + 1,
             RunLenIn(s, IF InChars(At(s, c + 1), "+-") THEN c + 2 ELSE c + 1, Digits))
    ELSE NumberEnd(s, i, c)
NumberFractionDigits(s, i, b, n) ==
    IF n = 0 THEN JsonFail ELSE NumberExponent(s, i, b + 1 + n)
NumberFraction(s, i, b) ==
    IF At(s, b) = "." THEN NumberFractionDigits(s, i, b, RunLenIn(s, b + 1, Digits))
    ELSE NumberExponent(s, i, b)
NumberInteger(s, i, a, n) == IF n = 0 THEN JsonFail ELSE NumberFraction(s, i, a + n)
NumberDigits(s, i, a) ==
    NumberInteger(s, i, a, IF At(s, a) = "0" THEN 1 ELSE RunLenIn(s, a, Digits))
JsonNumber(s, i) == NumberDigits(s, i, IF At(s, i) = "-" THEN i + 1 ELSE i)

JsonLiteral(s, i) ==
    IF StartsWithAt(s, i, "true") THEN [ok |-> TRUE, next |-> i + 4, t |-> "boolean", s |-> "true"]
    ELSE IF StartsWithAt(s, i, "false") THEN [ok |-> TRUE, next |-> i + 5, t |-> "boolean", s |-> "false"]
    ELSE IF StartsWithAt(s, i, "null") THEN [ok |-> TRUE, next |-> i + 4, t |-> "null", s |-> "null"]
    ELSE JsonFail

RECURSIVE JsonValue(_, _), JsonMembers(_, _, _), JsonElements(_, _)
\* the members of an object from position i (after "{" or ",") on, as
\* [ok, next, members]; first is whether "}" may close the object here
NoMembers == [ok |-> FALSE, next |-> 0, members |-> <<>>]
MembersThen(m, rest) ==
    IF ~rest.ok THEN NoMembers
    ELSE [ok |-> TRUE, next |-> rest.next, members |-> m \o rest.members]
MemberEnd(s, m, after) ==
    IF At(s, after) = "}" THEN [ok |-> TRUE, next |-> after + 1, members |-> m]
    ELSE IF At(s, after) # "," THEN NoMembers
    ELSE MembersThen(m, JsonMembers(s, after + 1, FALSE))
MemberValue(s, key, val) ==
    IF ~val.ok THEN NoMembers
    ELSE MemberEnd(s, <<[k |-> key.s, t |-> val.t, s |-> val.s]>>, SkipWs(s, val.next))
MemberColon(s, key, colon) ==
    IF At(s, colon) # ":" THEN NoMembers
    ELSE MemberValue(s, key, JsonValue(s, SkipWs(s, colon + 1)))
MemberKey(s, key) ==
    IF ~key.ok THEN NoMembers ELSE MemberColon(s, key, SkipWs(s, key.next))
MembersAt(s, a, first) ==
    IF first /\ At(s, a) = "}" THEN [ok |-> TRUE, next |-> a + 1, members |-> <<>>]
    ELSE IF At(s, a) # "\"" THEN NoMembers
    ELSE MemberKey(s, JsonChars(s, a + 1, ""))
JsonMembers(s, i, first) == MembersAt(s, SkipWs(s, i), first)

\* the position after the elements of an array from position i on, 0 if malformed
ElementEnd(s, after) ==
    IF At(s, after) = "]" THEN after + 1
    ELSE IF At(s, after) = "," THEN JsonElements(s, after + 1)
    ELSE 0
ElementValue(s, val) == IF ~val.ok THEN 0 ELSE ElementEnd(s, SkipWs(s, val.next))
JsonElements(s, i) == ElementValue(s, JsonValue(s, SkipWs(s, i)))

ObjectValue(s, i, m) ==
    IF m.ok THEN [ok |-> TRUE, next |-> m.next, t |-> "object", s |-> SubSeq(s, i, m.next - 1)]
    ELSE JsonFail
ArrayValue(s, i, e) ==
    IF e # 0 THEN [ok |-> TRUE, next |-> e, t |-> "array", s |-> SubSeq(s, i, e - 1)]
    ELSE JsonFail
ArrayFrom(s, i, a) ==
    ArrayValue(s, i, IF At(s, a) = "]" THEN a + 1 ELSE JsonElements(s, i + 1))
ValueAt(s, i, c) ==
    IF c = "\"" THEN JsonChars(s, i + 1, "")
    ELSE IF c = "{" THEN ObjectValue(s, i, JsonMembers(s, i + 1, TRUE))
    ELSE IF c = "[" THEN ArrayFrom(s, i, SkipWs(s, i + 1))
    ELSE IF c = "-" \/ IsDigit(c) THEN JsonNumber(s, i)
    ELSE JsonLiteral(s, i)
JsonValue(s, i) == ValueAt(s, i, At(s, i))

\* JSON.parse(text): [ok, t, s], ok FALSE where JSON.parse throws
WholeValue(text, v) ==
    IF v.ok /\ SkipWs(text, v.next) = Len(text) + 1
    THEN [ok |-> TRUE, t |-> v.t, s |-> v.s]
    ELSE [ok |-> FALSE, t |-> "none", s |-> ""]
JsonParse(text) == WholeValue(text, JsonValue(text, SkipWs(text, 1)))

Undefined == [t |-> "undefined", s |-> ""]
EmptyString == [t |-> "string", s |-> ""]
\* obj[key] for a parsed value (a later duplicate of a key wins)
MemberAt(ms, p) == IF p = 0 THEN Undefined ELSE [t |-> ms[p].t, s |-> ms[p].s]
LastMember(ms, key) == MemberAt(ms, LastPos(1, Len(ms), LAMBDA k : ms[k].k = key))
JsonGet(v, key) ==
    IF v.t # "object" THEN Undefined
    ELSE LastMember(JsonMembers(v.s, 2, TRUE).members, key)

\* ToBoolean(v)
Truthy(v) ==
    IF v.t = "string" THEN v.s # ""
    ELSE IF v.t = "number" THEN ~AllIn(v.s, "-0.eE+")
    ELSE IF v.t = "boolean" THEN v.s = "true"
    ELSE v.t \in {"object", "array"}
\* a || b || ''
FirstTruthy(a, b) == IF Truthy(a) THEN a ELSE IF Truthy(b) THEN b ELSE EmptyString

\* worker.js:168-192   the lyrics, or NULL
ClipMarker == "\"clip\":{"
Slice(s, n) == SubSeq(s, 1, Min({Len(s), n}))
\* worker.js:187-188
LyricsResolved(resolved) ==
    IF resolved = NULL \/ resolved = "" \/ IsPromptToken(resolved) THEN NULL
    ELSE Slice(resolved, MAX_LYRICS)
\* worker.js:183-186
LyricsFromPrompt(html, prompt) ==
    IF prompt = "" THEN NULL
    ELSE IF IsInstrumental(prompt) THEN NULL
    ELSE LyricsResolved(IF IsPromptToken(prompt)
                        THEN resolveSunoPromptToken(html, prompt) ELSE prompt)
\* worker.js:180-183  (a non-string field has no trim method: the catch returns null)
LyricsFromDisplayed(html, displayed, pr) ==
    IF displayed # "" /\ ~IsPromptToken(displayed) /\ ~IsInstrumental(displayed)
    THEN Slice(displayed, MAX_LYRICS)
    ELSE IF pr.t # "string" THEN NULL
    ELSE LyricsFromPrompt(html, Trim(pr.s))
\* worker.js:179
LyricsFromFields(html, dl, pr) ==
    IF dl.t # "string" THEN NULL ELSE LyricsFromDisplayed(html, Trim(dl.s), pr)
LyricsFromMeta(html, clip, meta) ==
    LyricsFromFields(html,
        FirstTruthy(JsonGet(clip, "displayed_lyrics"), JsonGet(meta, "displayed_lyrics")),
        FirstTruthy(JsonGet(meta, "prompt"), EmptyString))
\* worker.js:178
MetadataOf(metadata) ==
    IF Truthy(metadata) /\ metadata.t \in {"object", "array"} THEN metadata ELSE Undefined
\* worker.js:177
LyricsFromParsed(html, clip) ==
    IF ~clip.ok THEN NULL
    ELSE LyricsFromMeta(html, clip, MetadataOf(JsonGet(clip, "metadata")))
\* worker.js:174-176
LyricsFromJson(html, clipJson) ==
    IF clipJson = NULL THEN NULL ELSE LyricsFromParsed(html, JsonParse(clipJson))
\* worker.js:172-174
LyricsFromObject(html, norm, objStart) ==
    IF objStart = 0 THEN NULL ELSE LyricsFromJson(html, extractJsonObject(norm, objStart))
\* worker.js:170-172
LyricsFromClip(html, norm, clipIdx) ==
    IF clipIdx = 0 THEN NULL
    ELSE LyricsFromObject(html, norm, IndexOf(norm, "{", clipIdx + Len("\"clip\":")))
LyricsFromNorm(html, norm) == LyricsFromClip(html, norm, IndexOf(norm, ClipMarker, 1))
extractSunoLyrics(html) == LyricsFromNorm(html, normaliseSunoEscapes(html))

\* worker.js:200-205   the song id fetchSunoLyrics takes from the page URL, or NULL
\* (a: where the first path segment starts, b: where the second one starts)
SongIdOfBuggy(id) == IF ~AllIn(id, HexChars \o "-") THEN NULL ELSE id
SongIdOf(id) == IF Len(id) # 36 \/ ~AllIn(id, HexChars \o "-") THEN NULL ELSE id
SecondSegment(p, b) ==
    IF b = 0 THEN NULL ELSE SongIdOf(SubSeq(p, b, b + RunLen(p, b, "/") - 1))
FirstSegment(p, a, n) ==
    IF a = 0 THEN NULL
    ELSE IF SubSeq(p, a, a + n - 1) # "song" THEN NULL
    ELSE SecondSegment(p, FirstPos(a + n, Len(p), LAMBDA k : At(p, k) # "/"))
SegmentsOf(p, a) == FirstSegment(p, a, RunLen(p, a, "/"))
SongIdIn(u) ==
    IF ~u.ok THEN NULL
    ELSE IF u.hostname # "suno.com" /\ u.hostname # "www.suno.com" THEN NULL
    ELSE SegmentsOf(u.pathname, FirstPos(1, Len(u.pathname), LAMBDA k : At(u.pathname, k) # "/"))
SunoSongId(pageUrl) == SongIdIn(ParseUrl(pageUrl))
EmbedUrl(id) == "https://suno.com/embed/" \o id

\* ------------------------------------------------------------------------
\* Requests: handleInfo and extractAudioInfo        worker.js:272-383
\* A handler is one invocation in flight; pc is the await it is suspended at.
\* ------------------------------------------------------------------------
MAX_HTML_SIZE == 2 * 1024 * 1024

TooManyRequests == "Too many requests. Please wait a moment and try again."
MissingUrl == "Missing ?url= parameter"
NoAudioTag == "No og:audio or twitter:player:stream meta tag found on this page"
PageTooLarge == "Page too large to process"
FetchFailed == "fetch failed"
BodyFailed == "body stream failed"

\* parseInt(s, 10): [nan, val]
RECURSIVE DecVal(_)
DecVal(s) == IF Len(s) = 0 THEN 0
             ELSE DecVal(SubSeq(s, 1, Len(s) - 1)) * 10 + DigitVal(At(s, Len(s)))
ParseInt(s) ==
    LET a == FirstPos(1, Len(s), LAMBDA k : ~IsSpace(At(s, k)))
        neg == At(s, a) = "-"
        b == IF InChars(At(s, a), "+-") THEN a + 1 ELSE a
        n == RunLenIn(s, b, Digits)
    IN IF a = 0 \/ n = 0 THEN [nan |-> TRUE, val |-> 0]
       ELSE [nan |-> FALSE,
             val |-> IF neg THEN 0 - DecVal(SubSeq(s, b, b + n - 1))
                     ELSE DecVal(SubSeq(s, b, b + n - 1))]

\* what fetch() and Response.text() deliver: fetch throws, or resolves with a
\* status and headers; the body read throws, or yields `text` followed by
\* `pad` more characters that belong to no tag
NoResponse ==
    [throws |-> FALSE, status |-> 0, contentLength |-> NULL,
     bodyThrows |-> FALSE, text |-> "", pad |-> 0]
ResponseOk(resp) == resp.status >= 200 /\ resp.status <= 299
\* worker.js:294-295  parseInt(headers.get('content-length') || '0', 10) > MAX_HTML_SIZE
DeclaredTooLarge(resp) ==
    LET cl == IF resp.contentLength = NULL \/ resp.contentLength = ""
              THEN "0" ELSE resp.contentLength
        n == ParseInt(cl)
    IN IF n.nan THEN FALSE ELSE n.val > MAX_HTML_SIZE
\* a limit that refuses a page of exactly MAX_HTML_SIZE
MeasuredTooLargeBuggy(resp) == Len(resp.text) + resp.pad >= MAX_HTML_SIZE
\* worker.js:300  html.length > MAX_HTML_SIZE
MeasuredTooLarge(resp) == Len(resp.text) + resp.pad > MAX_HTML_SIZE

\* /^https?:\/\//i.test(targetUrl)
HasHttpPrefix(targetUrl) ==
    LET low == ToLowerCase(SubSeq(targetUrl, 1, Min({Len(targetUrl), 8})))
    IN StartsWith(low, "http://") \/ StartsWith(low, "https://")
\* worker.js:367
NormalizeUrl(targetUrl) ==
    IF HasHttpPrefix(targetUrl) THEN targetUrl ELSE "https://" \o targetUrl

\* ------------------------------------------------------------------------
\* The environment: clients, origin servers and the clock
\* ------------------------------------------------------------------------
SunoSong == "https://suno.com/song/01234567-89ab-cdef-0123-456789abcdef"
IpHeaders == {NULL, "203.0.113.7"}
Targets == {NULL, "example.com/page", "http://192.168.1.5/", "ftp://example.com/", SunoSong}

AudioPage ==
    "<meta property=\"og:title\" content=\"Song &amp; Dance\">"
      \o "<meta content=\"https://cdn.example.com/a.ogg?x=1\" property=\"og:audio\">"
      \o "<meta name=\"description\" content=\"Song by Al Bo (@albo). Listen\">"
NoAudioPage == "<html><title>Hello</title></html>"

Ok(text) == [NoResponse EXCEPT !.status = 200, !.text = text]
PageResponses ==
    { [NoResponse EXCEPT !.throws = TRUE],
      [NoResponse EXCEPT !.status = 404],
      [NoResponse EXCEPT !.status = 200, !.contentLength = "2097153"],
      [NoResponse EXCEPT !.status = 200, !.pad = MAX_HTML_SIZE + 1],
      [NoResponse EXCEPT !.status = 200, !.bodyThrows = TRUE],
      [Ok(NoAudioPage) EXCEPT !.contentLength = "33"],
      Ok(AudioPage) }

EmbedLyrics == "<script>self.__next_f.push([1,\"{\\\"clip\\\":{\\\"displayed_lyrics\\\":\\\"La la la\\\"}}\"])</script>"
EmbedResponses ==
    { [NoResponse EXCEPT !.throws = TRUE],
      [NoResponse EXCEPT !.status = 404],
      [NoResponse EXCEPT !.status = 200, !.bodyThrows = TRUE],
      Ok("<html>no marker</html>"),
      Ok("{\"clip\":{\"displayed_lyrics\":\"La la"),
      Ok("{\"clip\":{displayed_lyrics:La}}"),
      Ok("{\"clip\":{\"displayed_lyrics\":5}}"),
      Ok("{\"clip\":{\"metadata\":{\"prompt\":\"$12\"}}}"),
      Ok(EmbedLyrics) }

\* The environment's choices are finite, so what the pure functions return on
\* them is tabulated once: the handlers below look the values up.
KnownTargets == Targets \ {NULL}
normalizedUrlOf == [t \in KnownTargets |-> NormalizeUrl(t)]
Urls == {normalizedUrlOf[t] : t \in KnownTargets}
validateUrlOf == [u \in Urls |-> validateUrl(u)]
SunoSongIdOf == [u \in Urls |-> SunoSongId(u)]
PageTexts == {resp.text : resp \in PageResponses}
FindAudioOf == [html \in PageTexts |-> FindAudio(html)]
EmbedTexts == {resp.text : resp \in EmbedResponses}
extractSunoLyricsOf == [html \in EmbedTexts |-> extractSunoLyrics(html)]
LyricsValues == {NULL} \cup {extractSunoLyricsOf[html] : html \in EmbedTexts}
BuildResultOf ==
    [u \in Urls, html \in {x \in PageTexts : FindAudioOf[x] # NoAudio}, l \in LyricsValues |->
        BuildResult(u, html, l)]

NoInfo ==
    [audioUrl |-> NULL, title |-> NULL, artist |-> NULL, lyrics |-> NULL,
     filename |-> NULL, image |-> NULL, sourceTag |-> NULL, pageUrl |-> NULL]
NoPrev == [called |-> FALSE, doneAt |-> 0, fetched |-> 0, outcome |-> "none", storedAt |-> 0 - 1]

IdleHandler ==
    [pc |-> "idle", entry |-> "none", method |-> NULL, pathname |-> NULL, ip |-> NULL, target |-> NULL, url |-> NULL,
     admitted |-> FALSE, urlError |-> Pending, startedAt |-> 0, prev |-> NoPrev,
     hit |-> FALSE, page |-> NoResponse, embed |-> NoResponse, base |-> NoInfo,
     lyricsStep |-> "none", lyrics |-> NULL,
     result |-> "none", status |-> 0, error |-> NULL, data |-> NoInfo,
     pageFetches |-> 0, embedFetches |-> 0, cacheReads |-> 0, cacheWrites |-> 0,
     fetches |-> <<>>, bodyReads |-> 0]

\* worker.js:376-381  the response handleInfo makes of extractAudioInfo's outcome
\* (a direct caller of extractAudioInfo gets the outcome itself)
ResponseStatusBuggy(result) ==
    IF result = "data" THEN 200 ELSE 502
ResponseStatus(result) ==
    IF result = "data" THEN 200 ELSE IF result = "null" THEN 404 ELSE 502
Respond(r) ==
    IF r.entry = "extractAudioInfo" THEN [r EXCEPT !.pc = "done"]
    ELSE [r EXCEPT !.pc = "done",
                   !.status = ResponseStatus(r.result),
                   !.error = IF r.result = "null" THEN NoAudioTag ELSE r.error]
Throw(r, message) == Respond([r EXCEPT !.result = "throw", !.error = message])

\* worker.js:278-287  extractAudioInfo up to its first await
ExtractStart(r, c, t) ==
    IF CacheFresh(c, r.url, t)
    THEN Respond([r EXCEPT !.cacheReads = @ + 1, !.hit = TRUE,
                           !.result = "data", !.data = c[r.url].data])
    ELSE [r EXCEPT !.cacheReads = @ + 1, !.pageFetches = @ + 1, !.pc = "pageFetch",
                   !.fetches = Append(@, r.url)]

\* worker.js:370  if (urlError) return 400
RejectsBuggy(urlError) == FALSE
Rejects(urlError) == urlError # NULL

\* every request counted in one bucket
ClientIpBuggy(header) == "unknown"

\* worker.js:354  request.headers.get('cf-connecting-ip') || 'unknown'
ClientIp(header) == IF header = NULL \/ header = "" THEN "unknown" ELSE header

\* worker.js:354-375  handleInfo up to its first await
HandleInfoStart(r, header, targetUrl, m, c, t) ==
    LET ip == ClientIp(header)
        r1 == [r EXCEPT !.entry = "handleInfo", !.ip = ip, !.target = targetUrl,
                        !.startedAt = t, !.admitted = checkRateLimit(m, ip, t)]
        normalizedUrl == normalizedUrlOf[targetUrl]
        urlError == validateUrlOf[normalizedUrl]
        r2 == [r1 EXCEPT !.url = normalizedUrl, !.urlError = urlError]
    IN IF ~r1.admitted
       THEN [r1 EXCEPT !.pc = "done", !.status = 429, !.error = TooManyRequests]
       ELSE IF targetUrl = NULL \/ targetUrl = ""
       THEN [r1 EXCEPT !.pc = "done", !.status = 400, !.error = MissingUrl]
       ELSE IF Rejects(urlError)
       THEN [r2 EXCEPT !.pc = "done", !.status = 400, !.error = urlError]
       ELSE ExtractStart(r2, c, t)

\* worker.js:289-297  after fetch(url) settles
AfterPageFetch(r, resp) ==
    LET r1 == [r EXCEPT !.page = resp]
    IN IF resp.throws THEN Throw(r1, FetchFailed)
       ELSE IF ~ResponseOk(resp)
       THEN Throw(r1, "Failed to fetch page: HTTP " \o DecStr(resp.status))
       ELSE IF DeclaredTooLarge(resp) THEN Throw(r1, PageTooLarge)
       ELSE [r1 EXCEPT !.pc = "pageBody"]

\* worker.js:212  the catch of fetchSunoLyrics: any failure is "no lyrics"
CatchLyricsBuggy(r, step) ==
    Throw([r EXCEPT !.lyricsStep = step], "lyrics failed")
CatchLyrics(r, step) ==
    [r EXCEPT !.lyricsStep = step, !.lyrics = NULL, !.pc = "lyricsDone"]

\* worker.js:198-206  fetchSunoLyrics up to its first await (id: SunoSongId of the page URL)
FetchSunoLyricsStart(r, id) ==
    IF id = NULL THEN [r EXCEPT !.lyricsStep = "notSuno", !.pc = "lyricsDone"]
    ELSE [r EXCEPT !.embedFetches = @ + 1, !.pc = "embedFetch",
                   !.fetches = Append(@, EmbedUrl(id))]

\* worker.js:299-337, 200-208  after response.text() settles, up to the next await
AfterPageBody(r) ==
    LET html == r.page.text
        r1 == [r EXCEPT !.base = BuildResultOf[r.url, html, NULL]]
    IN IF r.page.bodyThrows THEN Throw(r, BodyFailed)
       ELSE IF MeasuredTooLarge(r.page) THEN Throw(r, PageTooLarge)
       ELSE IF FindAudioOf[html] = NoAudio THEN Respond([r EXCEPT !.result = "null"])
       ELSE FetchSunoLyricsStart(r1, SunoSongIdOf[r.url])

\* a resolver that fetches the embed page again when the fetch was refused
AfterEmbedFetchBuggy(r, resp) ==
    IF ~resp.throws /\ ~ResponseOk(resp) /\ r.embedFetches < 2
    THEN [r EXCEPT !.embedFetches = @ + 1, !.fetches = Append(@, r.fetches[Len(r.fetches)])]
    ELSE IF resp.throws THEN CatchLyrics([r EXCEPT !.embed = resp], "fetchThrew")
    ELSE IF ~ResponseOk(resp) THEN CatchLyrics([r EXCEPT !.embed = resp], "notOk")
    ELSE [r EXCEPT !.embed = resp, !.pc = "embedBody"]

\* worker.js:209  after fetch(embed) settles
AfterEmbedFetch(r, resp) ==
    LET r1 == [r EXCEPT !.embed = resp]
    IN IF resp.throws THEN CatchLyrics(r1, "fetchThrew")
       ELSE IF ~ResponseOk(resp) THEN CatchLyrics(r1, "notOk")
       ELSE [r1 EXCEPT !.pc = "embedBody"]

\* worker.js:210-211  after res.text() settles
AfterEmbedBody(r) ==
    LET lyrics == extractSunoLyricsOf[r.embed.text]
    IN IF r.embed.bodyThrows THEN CatchLyrics(r, "bodyThrew")
       ELSE IF lyrics = NULL THEN CatchLyrics(r, "noLyrics")
       ELSE [r EXCEPT !.lyricsStep = "lyrics", !.lyrics = lyrics, !.pc = "lyricsDone"]

\* a worker that downloads the audio it found
AfterLyricsBuggy(r) ==
    Respond([r EXCEPT !.cacheWrites = @ + 1, !.result = "data",
                      !.data = BuildResultOf[r.url, r.page.text, r.lyrics],
                      !.fetches = Append(@, BuildResultOf[r.url, r.page.text, r.lyrics].audioUrl)])

\* worker.js:339-347  after fetchSunoLyrics settles
AfterLyricsWith(r, result) ==
    Respond([r EXCEPT !.cacheWrites = @ + 1, !.result = "data", !.data = result])
AfterLyrics(r) == AfterLyricsWith(r, BuildResultOf[r.url, r.page.text, r.lyrics])

\* what the history remembers of a completed extractAudioInfo call on a URL
Remember(r, t) ==
    LET before == IF r.url \in DOMAIN lastCall THEN lastCall[r.url] ELSE NoPrev
        entry == [called |-> TRUE, doneAt |-> t, fetched |-> r.pageFetches,
                  outcome |-> r.result,
                  storedAt |-> IF r.cacheWrites > 0 THEN t ELSE before.storedAt]
    IN [k \in DOMAIN lastCall \cup {r.url} |-> IF k = r.url THEN entry ELSE lastCall[k]]

\* handler i moves to r
Step(i, r) ==
    /\ h' = [h EXCEPT ![i] = r]
    /\ lastCall' = IF r.pc = "done" /\ r.entry = "extractAudioInfo"
                   THEN Remember(r, now) ELSE lastCall

Free(i) == h[i].pc \in {"idle", "done"}
NextFree(i) == Free(i) /\ \A j \in Handlers : j < i => ~Free(j)

\* a client sends GET /api/info?url=target                  worker.js:353-375
HandleInfoFrom(i, r0, header, targetUrl) ==
    /\ NextFree(i)
    /\ started < MaxRequests
    /\ started' = started + 1
    /\ LET ip == ClientIp(header)
       IN /\ rateLimitMap' = RateLimitAfter(rateLimitMap, ip, now)
          /\ rl' = [rl EXCEPT ![ip] = RlAfterCall(@, now, checkRateLimit(rateLimitMap, ip, now))]
    /\ LET r == HandleInfoStart(r0, header, targetUrl, rateLimitMap, cache, now)
       IN /\ Step(i, r)
          /\ cache' = IF r.cacheReads > 0 THEN CacheAfterGet(cache, r.url, now) ELSE cache
    /\ UNCHANGED <<now, ticks, inp, out>>
HandleInfo(i, header, targetUrl) == HandleInfoFrom(i, IdleHandler, header, targetUrl)

\* extractAudioInfo(url) called while no other call is in flight   worker.js:277-287
CallExtract(i, url) ==
    /\ NextFree(i)
    /\ \A j \in Handlers : Free(j)
    /\ started < MaxRequests
    /\ started' = started + 1
    /\ LET r0 == [IdleHandler EXCEPT
                     !.entry = "extractAudioInfo", !.url = url, !.startedAt = now,
                     !.prev = IF url \in DOMAIN lastCall THEN lastCall[url] ELSE NoPrev]
       IN Step(i, ExtractStart(r0, cache, now))
    /\ cache' = CacheAfterGet(cache, url, now)
    /\ UNCHANGED <<now, ticks, rateLimitMap, rl, inp, out>>

\* fetch(url) settles                                       worker.js:281-297
PageFetched(i, resp) ==
    /\ h[i].pc = "pageFetch"
    /\ Step(i, AfterPageFetch(h[i], resp))
    /\ UNCHANGED <<now, ticks, rateLimitMap, cache, started, rl, inp, out>>

\* response.text() settles                                  worker.js:299-337
PageBodyRead(i) ==
    /\ h[i].pc = "pageBody"
    /\ Step(i, AfterPageBody([h[i] EXCEPT !.bodyReads = @ + 1]))
    /\ UNCHANGED <<now, ticks, rateLimitMap, cache, started, rl, inp, out>>

\* fetch(embed) settles                                     worker.js:206-209
EmbedFetched(i, resp) ==
    /\ h[i].pc = "embedFetch"
    /\ Step(i, AfterEmbedFetch(h[i], resp))
    /\ UNCHANGED <<now, ticks, rateLimitMap, cache, started, rl, inp, out>>

\* res.text() settles                                       worker.js:210-211
EmbedBodyRead(i) ==
    /\ h[i].pc = "embedBody"
    /\ Step(i, AfterEmbedBody(h[i]))
    /\ UNCHANGED <<now, ticks, rateLimitMap, cache, started, rl, inp, out>>

\* fetchSunoLyrics settles: the result is assembled, cached and returned   worker.js:337-347
LyricsSettled(i) ==
    /\ h[i].pc = "lyricsDone"
    /\ LET r == AfterLyrics(h[i])
       IN /\ Step(i, r)
          /\ cache' = setCache(cache, r.url, r.data, now)
    /\ UNCHANGED <<now, ticks, rateLimitMap, started, rl, inp, out>>

\* ------------------------------------------------------------------------
\* Spec: /api/info requests served concurrently
\* ------------------------------------------------------------------------
\* the limiter after one client made RATE_LIMIT_MAX - 1 requests at time 0
\* (each answered at once: they carried no url parameter)
WarmIp == "203.0.113.7"
Init ==
    /\ now = 0
    /\ ticks = 0
    /\ rateLimitMap = [ip \in {WarmIp} |-> [start |-> 0, count |-> RATE_LIMIT_MAX - 1]]
    /\ cache = EmptyMap
    /\ h = [i \in Handlers |-> IdleHandler]
    /\ started = 0
    /\ lastCall = EmptyMap
    /\ rl = [ip \in ClientIps |->
               IF ip = WarmIp
               THEN [windows |-> 1, opened |-> 0, k |-> RATE_LIMIT_MAX - 1, admitted |-> TRUE]
               ELSE NoWindow]
    /\ inp = NULL
    /\ out = NULL

Request == \E i \in Handlers, header \in IpHeaders, targetUrl \in Targets :
              HandleInfo(i, header, targetUrl)
PageFetch == \E i \in Handlers, resp \in PageResponses : PageFetched(i, resp)
PageBody == \E i \in Handlers : PageBodyRead(i)
EmbedFetch == \E i \in Handlers, resp \in EmbedResponses : EmbedFetched(i, resp)
EmbedBody == \E i \in Handlers : EmbedBodyRead(i)
Lyrics == \E i \in Handlers : LyricsSettled(i)
ClockTick == Tick(CACHE_TTL)

Next == Request \/ PageFetch \/ PageBody \/ EmbedFetch \/ EmbedBody \/ Lyrics \/ ClockTick

Spec == Init /\ [][Next]_vars

\* a /api/info request whose url parameter, after the https:// auto-prefix, validateUrl rejects
TargetRejected(r) ==
    /\ r.entry = "handleInfo"
    /\ r.admitted
    /\ r.target # NULL
    /\ validateUrlOf[normalizedUrlOf[r.target]] # NULL

\* C4: every /api/info request whose target URL (after the https:// auto-prefix)
\* validateUrl rejects is answered 400 with the validator's reason, issues no
\* outbound fetch and neither reads nor writes the cache.
C4_RejectedBeforeAnyIo ==
    \A i \in Handlers :
        TargetRejected(h[i]) =>
            /\ h[i].pc = "done"
            /\ h[i].status = 400
            /\ h[i].error = validateUrlOf[normalizedUrlOf[h[i].target]]
            /\ h[i].pageFetches = 0
            /\ h[i].embedFetches = 0
            /\ h[i].cacheReads = 0
            /\ h[i].cacheWrites = 0

\* the request for http://192.168.1.5/ was answered 400 with the validator's reason
C4_Witness ==
    \E i \in Handlers :
        /\ h[i].target = "http://192.168.1.5/"
        /\ h[i].status = 400
        /\ h[i].error = PrivateAddress
        /\ h[i].pageFetches = 0

\* the url parameter starts with a scheme other than http or https, followed by ://
NamesOtherScheme(targetUrl) ==
    LET n == RunLenIn(targetUrl, 1, SchemeChars)
    IN /\ n >= 1
       /\ IsAlpha(At(targetUrl, 1))
       /\ StartsWithAt(targetUrl, n + 1, "://")
       /\ ToLowerCase(SubSeq(targetUrl, 1, n)) \notin {"http", "https"}

\* C7: every /api/info request whose url parameter names a scheme other than
\* http or https is answered 400 with a validator rejection reason and causes
\* no outbound fetch.
C7_OtherSchemeRejected ==
    \A i \in Handlers :
        (/\ h[i].entry = "handleInfo"
         /\ h[i].admitted
         /\ h[i].target # NULL
         /\ NamesOtherScheme(h[i].target)) =>
            /\ h[i].pc = "done"
            /\ h[i].status = 400
            /\ h[i].error \in {InvalidUrl, OnlyHttp, PrivateAddress}
            /\ h[i].pageFetches = 0

\* the page fetch of a request failed: it threw, was not 2xx, or the page was oversize
PageFailed(r) ==
    \/ r.page.throws
    \/ ~ResponseOk(r.page)
    \/ DeclaredTooLarge(r.page)
    \/ r.page.bodyThrows
    \/ MeasuredTooLarge(r.page)

\* the status the precedence of C8 gives a finished request
ExpectedStatus(r) ==
    IF ~r.admitted THEN 429
    ELSE IF r.target = NULL THEN 400
    ELSE IF validateUrlOf[normalizedUrlOf[r.target]] # NULL THEN 400
    ELSE IF r.hit THEN 200
    ELSE IF PageFailed(r) THEN 502
    ELSE IF FindAudioOf[r.page.text] = NoAudio THEN 404
    ELSE 200

\* C8: every /api/info request ends in one response, chosen by the precedence
\* 429 (limiter rejects), 400 (url missing or rejected by validateUrl), 502 (page
\* fetch throws, is not 2xx or is oversize), 404 (no recognised audio tag found),
\* 200 with the AudioInfo; a request in flight has no response yet.
C8_OneResponseByPrecedence ==
    \A i \in Handlers :
        h[i].entry = "handleInfo" =>
            IF h[i].pc = "done"
            THEN /\ h[i].status = ExpectedStatus(h[i])
                 /\ IF h[i].status = 200
                    THEN h[i].error = NULL /\ h[i].data # NoInfo /\ h[i].data.audioUrl # NULL
                    ELSE h[i].error # NULL /\ h[i].data = NoInfo
            ELSE h[i].status = 0 /\ h[i].error = NULL /\ h[i].data = NoInfo

\* an unreachable page was answered 502 and a reachable page without audio tags 404
C8_Witness ==
    \E i, j \in Handlers :
        /\ h[i].status = 502 /\ ~h[i].page.throws /\ h[i].page.status = 404
        /\ h[j].status = 404 /\ h[j].page.status = 200 /\ h[j].page.text = NoAudioPage

LyricsFailures == {"fetchThrew", "notOk", "bodyThrew", "noLyrics"}

\* C9: once the page fetch succeeded and the audio tag was found, whatever
\* happens during lyrics resolution the response is 200 with the audioUrl,
\* title, artist, filename, image and sourceTag the page alone determines, and
\* with lyrics null when the resolution failed.
C9_LyricsNeverFail ==
    \A i \in Handlers :
        (h[i].entry = "handleInfo" /\ h[i].pc = "done" /\ h[i].lyricsStep # "none") =>
            /\ h[i].status = 200
            /\ h[i].data.audioUrl = h[i].base.audioUrl
            /\ h[i].data.title = h[i].base.title
            /\ h[i].data.artist = h[i].base.artist
            /\ h[i].data.filename = h[i].base.filename
            /\ h[i].data.image = h[i].base.image
            /\ h[i].data.sourceTag = h[i].base.sourceTag
            /\ h[i].lyricsStep \in LyricsFailures => h[i].data.lyrics = NULL

\* one request whose embed fetch threw and one whose clip held a non-string field, both answered 200
C9_Witness ==
    \E i, j \in Handlers :
        /\ h[i].status = 200 /\ h[i].lyricsStep = "fetchThrew"
        /\ h[j].status = 200 /\ h[j].lyricsStep = "noLyrics"
        /\ h[j].embed.text = "{\"clip\":{\"displayed_lyrics\":5}}"

\* ------------------------------------------------------------------------
\* SpecCache: extractAudioInfo called again and again, one call at a time
\* ------------------------------------------------------------------------
CacheUrls == {"https://example.com/page", SunoSong}

InitCache ==
    /\ now = 0
    /\ ticks = 0
    /\ rateLimitMap = EmptyMap
    /\ cache = EmptyMap
    /\ h = [i \in Handlers |-> IdleHandler]
    /\ started = 0
    /\ lastCall = EmptyMap
    /\ rl = [ip \in ClientIps |-> NoWindow]
    /\ inp = NULL
    /\ out = NULL

Call == \E i \in Handlers, url \in CacheUrls : CallExtract(i, url)
CacheTick == \E d \in {1, CACHE_TTL - 1} : Tick(d)

NextCache == Call \/ PageFetch \/ PageBody \/ EmbedFetch \/ EmbedBody \/ Lyrics \/ CacheTick

SpecCache == InitCache /\ [][NextCache]_vars

\* C3 as stated: of two calls in sequence on one URL, the first of which
\* fetched the page, the second performs no fetch when it starts within the
\* TTL of the first, and performs a fetch once the TTL has elapsed.
C3_OneFetchWithinTtl ==
    \A i \in Handlers :
        (/\ h[i].entry = "extractAudioInfo"
         /\ h[i].prev.called
         /\ h[i].prev.fetched = 1) =>
            IF h[i].startedAt - h[i].prev.doneAt < CACHE_TTL
            THEN h[i].pageFetches = 0
            ELSE h[i].pageFetches = 1

\* C3 amended: a call on a URL whose result was stored less than the TTL before
\* the call starts is served from the cache without a page fetch; any other
\* call (nothing stored for the URL because every earlier call found no audio
\* tag or failed, or the stored result is at least the TTL old) fetches the
\* page once.
C3_OneFetchPerStoredResult ==
    \A i \in Handlers :
        h[i].entry = "extractAudioInfo" =>
            IF h[i].prev.storedAt >= 0 /\ h[i].startedAt - h[i].prev.storedAt < CACHE_TTL
            THEN h[i].pageFetches = 0 /\ h[i].hit /\ h[i].pc = "done" /\ h[i].result = "data"
            ELSE h[i].pageFetches = 1 /\ ~h[i].hit

\* a second call, started after the first one's result was stored and within the TTL, was a hit
C3_Witness ==
    \E i \in Handlers :
        /\ h[i].entry = "extractAudioInfo"
        /\ h[i].prev.fetched = 1
        /\ h[i].prev.outcome = "data"
        /\ h[i].startedAt - h[i].prev.storedAt = CACHE_TTL - 1
        /\ h[i].hit
        /\ h[i].pageFetches = 0

\* ------------------------------------------------------------------------
\* SpecSanitise: sanitiseFilename applied to a name, then to its own output
\* ------------------------------------------------------------------------
MaxNameLen == 4
NameChars == {"a", ".", " ", "\t", "/", "\\"}
ForbiddenNameChars == "/\\:*?\"<>|"

RECURSIVE NamesUpTo(_)
NamesUpTo(n) ==
    IF n = 0 THEN {""}
    ELSE NamesUpTo(n - 1) \cup {s \o c : s \in NamesUpTo(n - 1), c \in NameChars}
NameInputs == NamesUpTo(MaxNameLen)

NoNames == [once |-> Pending, twice |-> Pending]

InitSanitise ==
    /\ now = 0
    /\ ticks = 0
    /\ rateLimitMap = EmptyMap
    /\ cache = EmptyMap
    /\ h = [i \in Handlers |-> NoRequest]
    /\ started = 0
    /\ lastCall = EmptyMap
    /\ rl = [ip \in ClientIps |-> NoWindow]
    /\ inp \in NameInputs
    /\ out = NoNames

\* sanitiseFilename(inp)                                    worker.js:244-246
ApplySanitise ==
    /\ out.once = Pending
    /\ out' = [out EXCEPT !.once = sanitiseFilename(inp)]
    /\ UNCHANGED <<now, ticks, rateLimitMap, cache, h, started, lastCall, rl, inp>>

\* sanitiseFilename(sanitiseFilename(inp))                  worker.js:244-246
ApplySanitiseAgain ==
    /\ out.once # Pending
    /\ out.twice = Pending
    /\ out' = [out EXCEPT !.twice = sanitiseFilename(out.once)]
    /\ UNCHANGED <<now, ticks, rateLimitMap, cache, h, started, lastCall, rl, inp>>

NextSanitise == ApplySanitise \/ ApplySanitiseAgain

SpecSanitise == InitSanitise /\ [][NextSanitise]_vars

\* C11: sanitiseFilename is idempotent, and its output holds none of
\* / \ : * ? " < > | and neither starts nor ends with a dot or whitespace.
C11_SanitiseIdempotent ==
    /\ out.once # Pending =>
          /\ \A i \in 1..Len(out.once) : ~InChars(At(out.once, i), ForbiddenNameChars)
          /\ ~InChars(At(out.once, 1), "." \o WhiteSpace)
          /\ ~InChars(At(out.once, Len(out.once)), "." \o WhiteSpace)
    /\ out.twice # Pending => out.twice = out.once

\* "./a." was sanitised to "_a", and sanitising "_a" gave "_a" again
C11_Witness == inp = "./a." /\ out.once = "_a" /\ out.twice = "_a"

\* ------------------------------------------------------------------------
\* SpecTitle: the result assembled from pages whose three title sources
\* (og:title, twitter:title, the title element) are written from a description
\* ------------------------------------------------------------------------
TitleStates == {"absent", "empty", "blank", "plain", "entity", "padded"}

\* the text written for the i-th title source, and the title it stands for
TitleTextOf(i, st) ==
    IF st = "empty" THEN ""
    ELSE IF st = "blank" THEN "  "
    ELSE IF st = "entity" THEN "R&amp;B &lt;3 " \o DecStr(i)
    ELSE IF st = "padded" THEN "  Song " \o DecStr(i) \o " "
    ELSE "Song " \o DecStr(i)
TitleMeantBy(i, st) ==
    IF st = "blank" THEN "audio"
    ELSE IF st = "entity" THEN "R&B <3 " \o DecStr(i)
    ELSE "Song " \o DecStr(i)

\* the element written for the i-th title source
TitleElement(i, st, reversed) ==
    IF st = "absent" THEN ""
    ELSE IF i = 3 THEN "<title>" \o TitleTextOf(i, st) \o "</title>"
    ELSE IF reversed
    THEN "<meta content='" \o TitleTextOf(i, st) \o "' name='" \o TITLE_TAGS[i] \o "'>"
    ELSE "<meta property=\"" \o TITLE_TAGS[i] \o "\" content=\"" \o TitleTextOf(i, st) \o "\">"

RenderTitlePage(states, reversed) ==
    "<head><meta property=\"og:audio\" content=\"https://cdn.x.com/1.mp3\">"
       \o (IF reversed
           THEN TitleElement(3, states[3], reversed) \o TitleElement(2, states[2], reversed)
                    \o TitleElement(1, states[1], reversed)
           ELSE TitleElement(1, states[1], reversed) \o TitleElement(2, states[2], reversed)
                    \o TitleElement(3, states[3], reversed))
       \o "</head>"

TitlePageInputs ==
    {[states |-> st, reversed |-> rev, text |-> RenderTitlePage(st, rev)] :
        st \in [1..3 -> TitleStates], rev \in BOOLEAN}

\* the title meant by the first source that is written with a value
ExpectedTitle(states) ==
    LET Present == {i \in 1..3 : states[i] \notin {"absent", "empty"}}
    IN IF Present = {} THEN "audio"
       ELSE TitleMeantBy(Min(Present), states[Min(Present)])

InitTitle ==
    /\ now = 0
    /\ ticks = 0
    /\ rateLimitMap = EmptyMap
    /\ cache = EmptyMap
    /\ h = [i \in Handlers |-> NoRequest]
    /\ started = 0
    /\ lastCall = EmptyMap
    /\ rl = [ip \in ClientIps |-> NoWindow]
    /\ inp \in TitlePageInputs
    /\ out = NoInfo

\* extractAudioInfo assembles its result from the page      worker.js:304-345
ApplyBuildResult ==
    /\ out = NoInfo
    /\ out' = BuildResult("https://example.com/page", inp.text, NULL)
    /\ UNCHANGED <<now, ticks, rateLimitMap, cache, h, started, lastCall, rl, inp>>

NextTitle == ApplyBuildResult

SpecTitle == InitTitle /\ [][NextTitle]_vars

AllowedFetches(r) ==
    {u \in {r.url} : validateUrlOf[u] = NULL}
        \cup {EmbedUrl(SunoSongIdOf[u]) : u \in {x \in {r.url} : SunoSongIdOf[x] # NULL}}

\* C13: for any request, every URL the worker fetches is the validated target
\* page URL or https://suno.com/embed/<id>; the extracted audioUrl is returned
\* in the result and is never fetched.
C13_AudioNeverFetched ==
    \A i \in Handlers :
        \A k \in 1..Len(h[i].fetches) :
            /\ h[i].fetches[k] \in AllowedFetches(h[i])
            /\ h[i].fetches[k] # h[i].data.audioUrl
            /\ h[i].fetches[k] # h[i].base.audioUrl

\* a song page was answered 200 with its audioUrl after the page and the embed page were fetched
C13_Witness ==
    \E i \in Handlers :
        /\ h[i].status = 200
        /\ h[i].data.audioUrl = "https://cdn.example.com/a.ogg?x=1"
        /\ h[i].fetches = <<SunoSong, EmbedUrl("01234567-89ab-cdef-0123-456789abcdef")>>

\* ------------------------------------------------------------------------
\* SpecBuckets: the head of handleInfo (the client's key and the limiter)
\* run for requests with and without a cf-connecting-ip header
\* ------------------------------------------------------------------------
BucketHeaders == {NULL, "", "203.0.113.7", "198.51.100.9"}
\* one client may go past its quota, the others make a few calls each
MaxOtherCalls == 2
BusyClient == "203.0.113.7"
CallsOf(header) == IF header = BusyClient THEN MaxCount ELSE MaxOtherCalls
NoLimiterCall == [header |-> NULL, admitted |-> TRUE, calls |-> 0]

InitBuckets ==
    /\ now = 0
    /\ ticks = 0
    /\ rateLimitMap = EmptyMap
    /\ cache = EmptyMap
    /\ h = [i \in Handlers |-> NoRequest]
    /\ started = 0
    /\ lastCall = EmptyMap
    /\ rl = [ip \in ClientIps |-> NoWindow]
    /\ inp = NULL
    /\ out = NoLimiterCall

\* a request arrives: its key is chosen and checkRateLimit runs    worker.js:354-357
LimitRequest(header) ==
    /\ IF RateLimitResets(rateLimitMap, ClientIp(header), now) THEN TRUE
       ELSE rateLimitMap[ClientIp(header)].count < CallsOf(header)
    /\ rateLimitMap' = RateLimitAfter(rateLimitMap, ClientIp(header), now)
    /\ out' = [header |-> header,
               admitted |-> checkRateLimit(rateLimitMap, ClientIp(header), now),
               calls |-> (out.calls + 1) % 2]
    /\ UNCHANGED <<now, ticks, cache, h, started, lastCall, rl, inp>>

BucketRequest == \E header \in BucketHeaders : LimitRequest(header)
BucketTick == Tick(RATE_LIMIT_WINDOW + 1)

NextBuckets == BucketRequest \/ BucketTick

SpecBuckets == InitBuckets /\ [][NextBuckets]_vars

\* the bucket a request with this header is counted in
BucketOf(header) == IF header = NULL \/ header = "" THEN "unknown" ELSE header

\* whether a call is admitted, judged by the entry of its own bucket alone
AdmittedByOwnBucket(m, key, t) ==
    IF key \notin DOMAIN m THEN TRUE
    ELSE IF t - m[key].start > RATE_LIMIT_WINDOW THEN TRUE
    ELSE m[key].count + 1 <= RATE_LIMIT_MAX

\* C14: a request is counted in the bucket of its cf-connecting-ip header, or
\* in the bucket 'unknown' when it has none; its checkRateLimit call leaves the
\* entry of every other key unchanged, and whether it is admitted depends on
\* its own bucket only.
C14_BucketsAreSeparate ==
    [][out'.calls # out.calls =>
          /\ DOMAIN rateLimitMap' = DOMAIN rateLimitMap \cup {BucketOf(out'.header)}
          /\ \A k \in DOMAIN rateLimitMap \ {BucketOf(out'.header)} :
                rateLimitMap'[k] = rateLimitMap[k]
          /\ rateLimitMap'[BucketOf(out'.header)] # 
                (IF BucketOf(out'.header) \in DOMAIN rateLimitMap
                 THEN rateLimitMap[BucketOf(out'.header)]
                 ELSE [start |-> 0 - 1, count |-> 0])
          /\ out'.admitted = AdmittedByOwnBucket(rateLimitMap, BucketOf(out'.header), now)]_vars

\* one client is over its quota, two header-less requests share the bucket
\* 'unknown', and the request of another client has just been admitted
C14_Witness ==
    /\ DOMAIN rateLimitMap = {"203.0.113.7", "198.51.100.9", "unknown"}
    /\ rateLimitMap["203.0.113.7"].count = RATE_LIMIT_MAX + 1
    /\ rateLimitMap["unknown"].count = 2
    /\ out.header = "198.51.100.9"
    /\ out.admitted

\* ------------------------------------------------------------------------
\* SpecSweep: getCached and setCache on a cache near its sweep size
\* (some entries fresh, some stale, one of an age at the TTL boundary)
\* ------------------------------------------------------------------------
MaxCacheOps == 3
SweepStart == 2 * CACHE_TTL
BoundaryUrl == "https://a.example/"
MissingUrl1 == "https://n1.example/"
MissingUrl2 == "https://n2.example/"
FillerUrl(n) == "https://f.example/" \o DecStr(n)
FillerNo(k, fillers) == CHOOSE n \in 1..fillers : FillerUrl(n) = k
SweepData(k) == [NoInfo EXCEPT !.audioUrl = "https://cdn.x.com/1.mp3", !.pageUrl = k]

\* a cache of `fillers` entries, the first `stale` of them older than the TTL
\* and the others one ms old, and one entry of age `age`
BuiltCache(fillers, stale, age) ==
    [k \in {FillerUrl(n) : n \in 1..fillers} \cup {BoundaryUrl} |->
        [data |-> SweepData(k),
         time |-> IF k = BoundaryUrl THEN SweepStart - age
                  ELSE IF FillerNo(k, fillers) <= stale THEN SweepStart - CACHE_TTL - 1
                  ELSE SweepStart - 1]]

SweepInputs ==
    [fillers : {CACHE_SWEEP_SIZE - 2, CACHE_SWEEP_SIZE - 1, CACHE_SWEEP_SIZE},
     stale : {0, 1, 3},
     age : {CACHE_TTL - 1, CACHE_TTL, CACHE_TTL + 1}]

NoCacheOp == [n |-> 0, op |-> "none", url |-> NULL, data |-> NoInfo]

InitSweep ==
    /\ now = SweepStart
    /\ ticks = 0
    /\ rateLimitMap = EmptyMap
    /\ inp \in SweepInputs
    /\ cache = BuiltCache(inp.fillers, inp.stale, inp.age)
    /\ h = [i \in Handlers |-> NoRequest]
    /\ started = 0
    /\ lastCall = EmptyMap
    /\ rl = [ip \in ClientIps |-> NoWindow]
    /\ out = NoCacheOp

\* getCached(url); a null return is kept as NoInfo           worker.js:33-38
GetCachedCall(url) ==
    /\ out.n < MaxCacheOps
    /\ out' = [n |-> out.n + 1, op |-> "get", url |-> url,
               data |-> IF CacheFresh(cache, url, now) THEN getCached(cache, url, now) ELSE NoInfo]
    /\ cache' = CacheAfterGet(cache, url, now)
    /\ UNCHANGED <<now, ticks, rateLimitMap, h, started, lastCall, rl, inp>>

\* setCache(url, data)                                       worker.js:40-49
SetCacheCall(url) ==
    /\ out.n < MaxCacheOps
    /\ out' = [n |-> out.n + 1, op |-> "set", url |-> url, data |-> SweepData(url)]
    /\ cache' = setCache(cache, url, SweepData(url), now)
    /\ UNCHANGED <<now, ticks, rateLimitMap, h, started, lastCall, rl, inp>>

SweepGet == \E url \in {BoundaryUrl, FillerUrl(1), MissingUrl1} : GetCachedCall(url)
SweepSet == \E url \in {BoundaryUrl, MissingUrl1, MissingUrl2} : SetCacheCall(url)
SweepTick == Tick(CACHE_TTL - 1)

NextSweep == SweepGet \/ SweepSet \/ SweepTick

SpecSweep == InitSweep /\ [][NextSweep]_vars

\* an entry has expired: 5 minutes have passed since its insertion
ExpiredAt(c, k, t) == t - c[k].time >= CACHE_TTL

\* C15: getCached(url) returns the stored data iff an entry for url exists and
\* has not expired; a get after expiry returns absent and removes the stale
\* entry; it never changes the entry of another key; and the boundary that
\* decides 'expired' in getCached is the one that decides 'older than the TTL'
\* in the sweep of setCache.
C15_GetCachedAndOneBoundary ==
    [][(out'.n # out.n /\ out'.op = "get") =>
          /\ IF out'.url \in DOMAIN cache /\ ~ExpiredAt(cache, out'.url, now)
             THEN out'.data = cache[out'.url].data /\ cache' = cache
             ELSE /\ out'.data = NoInfo
                  /\ DOMAIN cache' = DOMAIN cache \ {out'.url}
          /\ \A k \in DOMAIN cache \ {out'.url} : cache'[k] = cache[k]
          /\ \A k \in DOMAIN cache : ExpiredAt(cache, k, now) <=> SweepDeletes(cache, k, now)]_vars

\* what a setCache call does to the map
SetCacheStep ==
    (out'.n # out.n /\ out'.op = "set") =>
          /\ out'.url \in DOMAIN cache'
          /\ cache'[out'.url] = [data |-> out'.data, time |-> now]
          /\ DOMAIN cache' \subseteq DOMAIN cache \cup {out'.url}
          /\ \A k \in DOMAIN cache' \ {out'.url} : cache'[k] = cache[k]
          /\ \A k \in DOMAIN cache \ DOMAIN cache' : now - cache[k].time > CACHE_TTL
          /\ Cardinality(DOMAIN cache') > CACHE_SWEEP_SIZE =>
                \A k \in DOMAIN cache' : ~(now - cache'[k].time > CACHE_TTL)
          /\ Cardinality(DOMAIN cache \cup {out'.url}) <= CACHE_SWEEP_SIZE =>
                DOMAIN cache' = DOMAIN cache \cup {out'.url}

\* C16 as stated: after every setCache that leaves the map with more than 200
\* entries no entry is older than the TTL, the sweep deletes only entries older
\* than the TTL, the entry just written is present, and at a size of at most
\* 200 nothing is deleted; consequently the map exceeds 200 entries only while
\* all its entries are within the TTL.
C16_OverSizeOnlyWhileFresh ==
    /\ [][SetCacheStep]_vars
    /\ [](Cardinality(DOMAIN cache) > CACHE_SWEEP_SIZE =>
              \A k \in DOMAIN cache : ~(now - cache[k].time > CACHE_TTL))

\* C16 amended: after every setCache the entry just written is present; if
\* the map then holds more than 200 entries, every entry older than the TTL at
\* that moment was deleted and no other entry was; if it holds at most 200,
\* nothing was deleted. (Between setCache calls the entries of a map of more
\* than 200 may age past the TTL.)
C16_SweepOnlyStale == [][SetCacheStep]_vars

\* a setCache swept three stale entries out of a map of 202, kept an entry
\* exactly CACHE_TTL old, and left 199 entries
C16_Witness ==
    /\ out.op = "set"
    /\ out.url = MissingUrl1
    /\ inp.fillers = CACHE_SWEEP_SIZE
    /\ inp.stale = 3
    /\ inp.age = CACHE_TTL
    /\ now = SweepStart
    /\ Cardinality(DOMAIN cache) = CACHE_SWEEP_SIZE - 1
    /\ BoundaryUrl \in DOMAIN cache
    /\ FillerUrl(1) \notin DOMAIN cache

\* ------------------------------------------------------------------------
\* The command-line script                        og-audio-dl.sh:29-159
\* ------------------------------------------------------------------------
\* og-audio-dl.sh:98
CLI_TAGS == <<"og:audio", "og:audio:url", "og:audio:secure_url", "twitter:player:stream">>
\* og-audio-dl.sh:107
CliNoAudio == "  No og:audio or twitter:player:stream found on this page."

\* og-audio-dl.sh:57  grep -oiE "<meta[^>]+(property|name)=\"${property}\"[^>]+>" | head -1
\* on a one-line page: the element that opens at p closes at the first '>' at g,
\* and holds the key at some q with a character before it and one after it
ShKeyAt(low, q, g, key) == StartsWithAt(low, q, key) /\ q + Len(key) <= g - 1
ShHoldsKey(low, p, g, tag) ==
    \E q \in (p + 6)..(g - 1) :
        \/ ShKeyAt(low, q, g, "property=\"" \o tag \o "\"")
        \/ ShKeyAt(low, q, g, "name=\"" \o tag \o "\"")
ShElementEnd(low, p) == p + 5 + RunLen(low, p + 5, ">")
ShOpensAt(low, p, tag) ==
    /\ StartsWithAt(low, p, "<meta")
    /\ At(low, ShElementEnd(low, p)) = ">"
    /\ ShHoldsKey(low, p, ShElementEnd(low, p), tag)
ShElementFrom(page, low, p) ==
    IF p = 0 THEN NULL ELSE SubSeq(page, p, ShElementEnd(low, p))
ShFirstElement(page, low, tag) ==
    ShElementFrom(page, low, FirstPos(1, Len(low), LAMBDA p : ShOpensAt(low, p, tag)))

\* og-audio-dl.sh:57  grep -oiE 'content="[^"]*"' | head -1 | sed 's/content="//;s/"$//'
\* m is what grep prints: the attribute from `content="` to its closing quote
ShStripPrefix(m) == IF StartsWith(m, "content=\"") THEN From(m, 10) ELSE m
ShStripQuote(m) ==
    IF Len(m) >= 1 /\ At(m, Len(m)) = "\"" THEN SubSeq(m, 1, Len(m) - 1) ELSE m
ShContentClosed(e, c, close) ==
    IF close = 0 THEN [status |-> 1, text |-> ""]
    ELSE [status |-> 0, text |-> ShStripQuote(ShStripPrefix(SubSeq(e, c, close)))]
ShContentAt(e, c) ==
    IF c = 0 THEN [status |-> 1, text |-> ""]
    ELSE ShContentClosed(e, c, IndexOf(e, "\"", c + 9))
ShContentOf(e) ==
    IF e = NULL THEN [status |-> 1, text |-> ""]
    ELSE ShContentAt(e, IndexOf(ToLowerCase(e), "content=\"", 1))

\* og-audio-dl.sh:53-58  what the command substitution $(extract_meta page tag)
\* yields: the pipeline's exit status under pipefail, and the text it printed
extract_meta(page, property) ==
    ShContentOf(ShFirstElement(page, ToLowerCase(page), property))

\* --- pages handed to download_one -----------------------------------------
\* each of the four tags is absent from the page, present with content="",
\* or present with a URL of its own; og:title is always present and has no
\* " - " style suffix, so lines 114-126 leave the title as extracted
CliTagStates == {"absent", "empty", "present"}
CliModes == {"single", "batch"}
CliUrl == "https://example.com/p"
CliTitleText == "Song"
CliAudioUrl(k) == "https://cdn.example/" \o DecStr(k) \o ".mp3"
CliTagElement(k, st) ==
    IF st = "absent" THEN ""
    ELSE "<meta property=\"" \o CLI_TAGS[k] \o "\" content=\""
            \o (IF st = "present" THEN CliAudioUrl(k) ELSE "") \o "\">"
CliPage(st) ==
    "<meta property=\"og:title\" content=\"" \o CliTitleText \o "\">"
        \o CliTagElement(4, st[4]) \o CliTagElement(3, st[3])
        \o CliTagElement(2, st[2]) \o CliTagElement(1, st[1])
CliInputs ==
    {[mode |-> m, states |-> st, page |-> CliPage(st)] :
        m \in CliModes, st \in [1..4 -> CliTagStates]}

\* og-audio-dl.sh:29, 203, 218  set -e ends the script when a plain command
\* fails; it is ignored in everything run by a function that is itself the
\* condition of an `if` (the batch loop), and in force when download_one is
\* called as a plain command (single-URL mode)
ErrExit(mode) == mode = "single"

NoCliRun ==
    [pc |-> "start", k |-> 0, audio_url |-> "", title |-> "", message |-> NULL,
     downloadFrom |-> NULL, returned |-> NULL, exited |-> FALSE]

InitCli ==
    /\ now = 0
    /\ ticks = 0
    /\ rateLimitMap = EmptyMap
    /\ cache = EmptyMap
    /\ h = [i \in Handlers |-> NoRequest]
    /\ started = 0
    /\ lastCall = EmptyMap
    /\ rl = [ip \in ClientIps |-> NoWindow]
    /\ inp \in CliInputs
    /\ out = NoCliRun

\* og-audio-dl.sh:83-98  the URL is well formed, curl hands back the page
CliFetch ==
    /\ out.pc = "start"
    /\ out' = [out EXCEPT !.pc = "loop", !.k = 1]
    /\ UNCHANGED <<now, ticks, rateLimitMap, cache, h, started, lastCall, rl, inp>>

\* og-audio-dl.sh:99-104  one turn of the loop: audio_url=$(extract_meta ...)
\* is a plain command whose status is the pipeline's
CliAfterTag(o, r, mode) ==
    IF r.status # 0 /\ ErrExit(mode)
    THEN [o EXCEPT !.pc = "done", !.audio_url = r.text, !.returned = r.status,
                   !.exited = TRUE]
    ELSE IF r.text # "" THEN [o EXCEPT !.pc = "title", !.audio_url = r.text]
    ELSE IF o.k = Len(CLI_TAGS) THEN [o EXCEPT !.pc = "none", !.audio_url = r.text]
    ELSE [o EXCEPT !.k = @ + 1, !.audio_url = r.text]
CliTryTag ==
    /\ out.pc = "loop"
    /\ out' = CliAfterTag(out, extract_meta(inp.page, CLI_TAGS[out.k]), inp.mode)
    /\ UNCHANGED <<now, ticks, rateLimitMap, cache, h, started, lastCall, rl, inp>>

\* og-audio-dl.sh:106-109
CliNotFound ==
    /\ out.pc = "none"
    /\ out' = [out EXCEPT !.pc = "done", !.message = CliNoAudio, !.returned = 1]
    /\ UNCHANGED <<now, ticks, rateLimitMap, cache, h, started, lastCall, rl, inp>>

\* og-audio-dl.sh:112-145  title=$(extract_meta "$page" "og:title")
CliAfterTitle(o, r, mode) ==
    IF r.status # 0 /\ ErrExit(mode)
    THEN [o EXCEPT !.pc = "done", !.returned = r.status, !.exited = TRUE]
    ELSE [o EXCEPT !.pc = "download", !.title = r.text]
CliTitle ==
    /\ out.pc = "title"
    /\ out' = CliAfterTitle(out, extract_meta(inp.page, "og:title"), inp.mode)
    /\ UNCHANGED <<now, ticks, rateLimitMap, cache, h, started, lastCall, rl, inp>>

\* og-audio-dl.sh:147-158  curl -o "$output_file" "$audio_url", then the size test
CliDownload ==
    /\ out.pc = "download"
    /\ \E small \in BOOLEAN :
        out' = [out EXCEPT !.pc = "done", !.downloadFrom = out.audio_url,
                           !.returned = IF small THEN 1 ELSE 0]
    /\ UNCHANGED <<now, ticks, rateLimitMap, cache, h, started, lastCall, rl, inp>>

NextCli == CliFetch \/ CliTryTag \/ CliNotFound \/ CliTitle \/ CliDownload
SpecCli == InitCli /\ [][NextCli]_vars

\* the first of the four tags whose content is not empty, 0 when there is none
CliFirstPresent(st) == FirstPos(1, Len(CLI_TAGS), LAMBDA k : st[k] = "present")
CliExpected(o, first) ==
    IF first # 0
    THEN o.downloadFrom = CliAudioUrl(first) /\ o.message = NULL
    ELSE o.downloadFrom = NULL /\ o.message = CliNoAudio /\ o.returned = 1

\* C17: in single-URL mode as well as in --batch mode, a finished download_one
\* has downloaded from the first of og:audio, og:audio:url, og:audio:secure_url,
\* twitter:player:stream that has non-empty content, earlier tags being absent
\* or not, and when none has it has printed the "No og:audio or
\* twitter:player:stream found" message and returned failure.
C17_FirstTagInBothModes ==
    out.pc = "done" => CliExpected(out, CliFirstPresent(inp.states))

\* the same statement for --batch mode alone
C17_FirstTagInBatchMode ==
    (out.pc = "done" /\ inp.mode = "batch")
        => CliExpected(out, CliFirstPresent(inp.states))

\* the same statement for pages on which no tag is missing before the first
\* one that has content
C17_FirstTagNoneMissingBefore ==
    (/\ out.pc = "done"
     /\ CliFirstPresent(inp.states) # 0
     /\ \A k \in 1..CliFirstPresent(inp.states) : inp.states[k] # "absent")
        => CliExpected(out, CliFirstPresent(inp.states))

\* ------------------------------------------------------------------------
\* SpecGate: the lyrics step of extractAudioInfo on page URLs of many shapes
\*                                                 worker.js:198-215, 337-347
\* ------------------------------------------------------------------------
\* a page URL is written from a host, a list of path segments, and the way
\* the path is written around them; hostname is what new URL() makes of host
GateHosts ==
    { [written |-> "suno.com", hostname |-> "suno.com"],
      [written |-> "www.suno.com", hostname |-> "www.suno.com"],
      [written |-> "SUNO.com:8443", hostname |-> "suno.com"],
      [written |-> "app.suno.com", hostname |-> "app.suno.com"],
      [written |-> "suno.com.example.org", hostname |-> "suno.com.example.org"],
      [written |-> "suno.com@example.org", hostname |-> "example.org"] }
GateId == "01234567-89ab-cdef-0123-456789abcdef"
GateIds ==
    { GateId,
      "01234567-89AB-CDEF-0123-456789ABCDEF",
      "------------------------------------",
      "01234567-89ab-cdef-0123-456789abcde",
      "01234567-89ab-cdef-0123-456789abcdef0",
      "01234567-89ab-cdef-0123-456789abcdeg" }
GateFirsts == {"song", "Song", "songs", "embed"}
GatePaths ==
    {<<"song">>} \cup {<<a, id>> : a \in GateFirsts, id \in GateIds}
        \cup {<<"song", id, "edit">> : id \in GateIds}
        \cup {<<id, "song">> : id \in GateIds}
GateLeads == {"/", "//"}
GateTails == {"", "/", "?ref=1"}
RECURSIVE JoinSegments(_)
JoinSegments(segs) ==
    IF Len(segs) = 1 THEN segs[1]
    ELSE segs[1] \o "/" \o JoinSegments(Tail(segs))
GateUrl(host, lead, segs, tail) ==
    "https://" \o host.written \o lead \o JoinSegments(segs) \o tail
GateInputs ==
    {[hostname |-> host.hostname, segs |-> segs, url |-> GateUrl(host, lead, segs, tail)] :
        host \in GateHosts, lead \in GateLeads, segs \in GatePaths, tail \in GateTails}

\* the song id the URL was written with, NULL unless the hostname is suno.com
\* or www.suno.com, the first segment is "song" and the second is 36
\* characters of hex digits and hyphens
GateValidId(id) ==
    Len(id) = 36 /\ \A k \in 1..36 : InChars(At(id, k), "0123456789abcdefABCDEF-")
GateExpectedId(d) ==
    IF /\ d.hostname \in {"suno.com", "www.suno.com"}
       /\ Len(d.segs) >= 2
       /\ d.segs[1] = "song"
       /\ GateValidId(d.segs[2])
    THEN d.segs[2] ELSE NULL

\* worker.js:304-337  extractAudioInfo about to call fetchSunoLyrics(url): the
\* page was fetched and read, and has an audio tag
GateEmbedResponses ==
    { [NoResponse EXCEPT !.status = 404], Ok("<html>no marker</html>"), Ok(EmbedLyrics) }
\* BuildResult(url, AudioPage, lyrics), the parts read from the page taken once
GateFound == FindAudio(AudioPage)
GateTitle == ResolveTitle(AudioPage)
GateArtist == extractArtist(AudioPage)
GateImage == extractMeta(AudioPage, "og:image")
GateResult(url, lyrics) ==
    AudioInfo(url, lyrics, GateFound, GateTitle, GateArtist, GateImage)
AtLyricsStep(url) ==
    [IdleHandler EXCEPT !.pc = "lyrics", !.entry = "extractAudioInfo", !.url = url,
                        !.page = Ok(AudioPage), !.base = GateResult(url, NULL),
                        !.cacheReads = 1, !.pageFetches = 1, !.bodyReads = 1,
                        !.fetches = <<url>>]

InitGate ==
    /\ now = 0
    /\ ticks = 0
    /\ rateLimitMap = EmptyMap
    /\ cache = EmptyMap
    /\ h = [i \in Handlers |-> NoRequest]
    /\ started = 0
    /\ lastCall = EmptyMap
    /\ rl = [ip \in ClientIps |-> NoWindow]
    /\ inp \in GateInputs
    /\ out = AtLyricsStep(inp.url)

\* fetchSunoLyrics(url) up to its first await                worker.js:198-206
GateLyricsCalled ==
    /\ out.pc = "lyrics"
    /\ out' = FetchSunoLyricsStart(out, SunoSongId(out.url))
    /\ UNCHANGED <<now, ticks, rateLimitMap, cache, h, started, lastCall, rl, inp>>

\* fetch(embed) settles                                      worker.js:206-209
GateEmbedFetched ==
    /\ out.pc = "embedFetch"
    /\ \E resp \in GateEmbedResponses : out' = AfterEmbedFetch(out, resp)
    /\ UNCHANGED <<now, ticks, rateLimitMap, cache, h, started, lastCall, rl, inp>>

\* res.text() settles                                        worker.js:210-211
GateEmbedBodyRead ==
    /\ out.pc = "embedBody"
    /\ out' = AfterEmbedBody(out)
    /\ UNCHANGED <<now, ticks, rateLimitMap, cache, h, started, lastCall, rl, inp>>

\* fetchSunoLyrics settles: the result is assembled and returned   worker.js:337-347
GateLyricsSettled ==
    /\ out.pc = "lyricsDone"
    /\ out' = AfterLyricsWith(out, GateResult(out.url, out.lyrics))
    /\ UNCHANGED <<now, ticks, rateLimitMap, cache, h, started, lastCall, rl, inp>>

NextGate == GateLyricsCalled \/ GateEmbedFetched \/ GateEmbedBodyRead \/ GateLyricsSettled
SpecGate == InitGate /\ [][NextGate]_vars

GateFetchOnlyFor(o, id) ==
    o.embedFetches > 0 => (id # NULL /\ o.fetches = <<o.url, EmbedUrl(id)>>)
GateShortCircuit(o, id) ==
    (id = NULL /\ o.pc # "lyrics")
        => /\ o.embedFetches = 0
           /\ o.fetches = <<o.url>>
           /\ o.lyrics = NULL
           /\ o.pc \in {"lyricsDone", "done"}
           /\ o.pc = "done" => (o.result = "data" /\ o.data = o.base)

\* C18: the embed fetch is issued only when the page URL's hostname is exactly
\* suno.com or www.suno.com, its first path segment is "song" and its second
\* is exactly 36 characters of hex digits and hyphens, and then for that id;
\* for every other URL the lyrics are null, no second fetch is made, and the
\* result is the one assembled from the page alone.
C18_EmbedFetchOnlyForSunoSong ==
    /\ GateFetchOnlyFor(out, GateExpectedId(inp))
    /\ GateShortCircuit(out, GateExpectedId(inp))

\* a suno.com song page got its embed fetched, a look-alike host was answered
\* without one
C18_Witness ==
    /\ inp.url = "https://www.suno.com/song/" \o GateId
    /\ out.pc = "done"
    /\ out.fetches = <<inp.url, EmbedUrl(GateId)>>
    /\ out.data.lyrics = "La la la"
C18_WitnessOther ==
    /\ inp.url = "https://suno.com.example.org/song/" \o GateId
    /\ out.pc = "done"
    /\ out.fetches = <<inp.url>>
    /\ out.data.lyrics = NULL
    /\ out.data.audioUrl = "https://cdn.example.com/a.ogg?x=1"

\* ------------------------------------------------------------------------
\* The fetches of one request, in Spec
\* ------------------------------------------------------------------------
FetchFailedFor(resp) == resp # NoResponse /\ (resp.throws \/ ~ResponseOk(resp))
PageUsable(r) ==
    /\ ResponseOk(r.page)
    /\ ~r.page.throws
    /\ ~r.page.bodyThrows
    /\ ~DeclaredTooLarge(r.page)
    /\ ~MeasuredTooLarge(r.page)
    /\ r.bodyReads = 1
    /\ FindAudioOf[r.page.text] # NoAudio
AtMostOnceInOrder(r) ==
    /\ r.pageFetches <= 1
    /\ r.embedFetches <= 1
    /\ Len(r.fetches) = r.pageFetches + r.embedFetches
    /\ r.pageFetches = 1 => r.fetches[1] = r.url
    /\ r.embedFetches = 1 =>
        /\ r.pageFetches = 1
        /\ r.fetches[2] = EmbedUrl(SunoSongIdOf[r.url])
        /\ PageUsable(r)
PageRejected(r) ==
    \/ FetchFailedFor(r.page)
    \/ r.page # NoResponse /\ DeclaredTooLarge(r.page)
    \/ r.bodyReads = 1 /\ (r.page.bodyThrows \/ MeasuredTooLarge(r.page))
PageFailureTerminal(r) ==
    PageRejected(r) =>
        /\ r.pc = "done"
        /\ r.result = "throw"
        /\ r.pageFetches = 1
        /\ r.embedFetches = 0
        /\ r.cacheWrites = 0
        /\ r.entry = "handleInfo" => r.status = 502
EmbedFailureTerminal(r) ==
    FetchFailedFor(r.embed) =>
        /\ r.pc \in {"lyricsDone", "done"}
        /\ r.lyricsStep \in {"fetchThrew", "notOk"}
        /\ r.lyrics = NULL
        /\ r.embedFetches = 1
        /\ r.pc = "done" => (r.result = "data" /\ r.data.lyrics = NULL)

SizeHeaders ==
    { [written |-> NULL, stated |-> FALSE, declared |-> 0],
      [written |-> "", stated |-> FALSE, declared |-> 0],
      [written |-> "abc", stated |-> FALSE, declared |-> 0],
      [written |-> "0", stated |-> TRUE, declared |-> 0],
      [written |-> "33", stated |-> TRUE, declared |-> 33],
      [written |-> "2097151", stated |-> TRUE, declared |-> 2 * 1024 * 1024 - 1],
      [written |-> "2097152", stated |-> TRUE, declared |-> 2 * 1024 * 1024],
      [written |-> "2097153", stated |-> TRUE, declared |-> 2 * 1024 * 1024 + 1],
      [written |-> " 2097153", stated |-> TRUE, declared |-> 2 * 1024 * 1024 + 1],
      [written |-> "10000000", stated |-> TRUE, declared |-> 10000000] }
\* length: the number of characters (UTF-16 code units) of the string that
\* response.text() decodes the body to; the characters after the page text
\* take `width` bytes each in the UTF-8 body, the page text one byte each
SizeWidths == {1, 3}
BodyBytes(text, length, width) == Len(text) + (length - Len(text)) * width
SizeBodies(text) ==
    {Len(text), 2 * 1024 * 1024 - 1, 2 * 1024 * 1024, 2 * 1024 * 1024 + 1, 3 * 1024 * 1024}
SizeTexts == {AudioPage, NoAudioPage}
SizeResponse(hd, text, length) ==
    [NoResponse EXCEPT !.status = 200, !.contentLength = hd.written,
                       !.text = text, !.pad = length - Len(text)]
SizeInputs ==
    UNION {{[stated |-> hd.stated, declared |-> hd.declared, length |-> n,
             bytes |-> BodyBytes(text, n, w), resp |-> SizeResponse(hd, text, n)] :
                n \in SizeBodies(text), hd \in SizeHeaders, w \in SizeWidths} : text \in SizeTexts}

\* worker.js:353-375, 277-287  handleInfo on the song page, up to the fetch
AtPageFetch ==
    ExtractStart([IdleHandler EXCEPT !.entry = "handleInfo", !.admitted = TRUE,
                                     !.target = SunoSong, !.url = SunoSong,
                                     !.urlError = validateUrlOf[SunoSong]],
                 EmptyMap, 0)

InitSize ==
    /\ now = 0
    /\ ticks = 0
    /\ rateLimitMap = EmptyMap
    /\ cache = EmptyMap
    /\ h = [i \in Handlers |-> NoRequest]
    /\ started = 0
    /\ lastCall = EmptyMap
    /\ rl = [ip \in ClientIps |-> NoWindow]
    /\ inp \in SizeInputs
    /\ out = AtPageFetch

\* fetch(url) settles with the response                     worker.js:281-297
SizePageFetched ==
    /\ out.pc = "pageFetch"
    /\ out' = AfterPageFetch(out, inp.resp)
    /\ UNCHANGED <<now, ticks, rateLimitMap, cache, h, started, lastCall, rl, inp>>

\* response.text() settles                                  worker.js:299-337
SizePageBodyRead ==
    /\ out.pc = "pageBody"
    /\ out' = AfterPageBody([out EXCEPT !.bodyReads = @ + 1])
    /\ UNCHANGED <<now, ticks, rateLimitMap, cache, h, started, lastCall, rl, inp>>

\* fetch(embed) settles                                     worker.js:206-209
SizeEmbedFetched ==
    /\ out.pc = "embedFetch"
    /\ \E resp \in {[NoResponse EXCEPT !.status = 404], Ok(EmbedLyrics)} :
        out' = AfterEmbedFetch(out, resp)
    /\ UNCHANGED <<now, ticks, rateLimitMap, cache, h, started, lastCall, rl, inp>>

\* res.text() settles                                       worker.js:210-211
SizeEmbedBodyRead ==
    /\ out.pc = "embedBody"
    /\ out' = AfterEmbedBody(out)
    /\ UNCHANGED <<now, ticks, rateLimitMap, cache, h, started, lastCall, rl, inp>>

\* fetchSunoLyrics settles: result assembled, cached, returned   worker.js:337-347
SizeLyricsSettled ==
    /\ out.pc = "lyricsDone"
    /\ out' = AfterLyrics(out)
    /\ cache' = setCache(cache, out.url, AfterLyrics(out).data, now)
    /\ UNCHANGED <<now, ticks, rateLimitMap, h, started, lastCall, rl, inp>>

NextSize ==
    \/ SizePageFetched
    \/ SizePageBodyRead
    \/ SizeEmbedFetched
    \/ SizeEmbedBodyRead
    \/ SizeLyricsSettled
SpecSize == InitSize /\ [][NextSize]_vars

DeclaresOverLimit(d) == d.stated /\ d.declared > 2 * 1024 * 1024
BodyOverLimit(d) == d.bytes > 2 * 1024 * 1024
TextOverLimit(d) == d.length > 2 * 1024 * 1024
\* the request was answered 502 "Page too large to process" after `reads`
\* reads of the body; nothing was extracted, fetched for lyrics, or cached
RefusedAsTooLarge(o, c, reads) ==
    /\ o.pc = "done"
    /\ o.status = 502
    /\ o.error = PageTooLarge
    /\ o.bodyReads = reads
    /\ o.base = NoInfo
    /\ o.data = NoInfo
    /\ o.embedFetches = 0
    /\ o.fetches = <<o.url>>
    /\ o.cacheWrites = 0
    /\ c = EmptyMap
Processed(o, c) ==
    /\ o.error # PageTooLarge
    /\ o.bodyReads = 1
    /\ o.pc = "done" =>
        \/ o.status = 404 /\ FindAudioOf[o.page.text] = NoAudio
        \/ o.status = 200 /\ o.data.audioUrl = FindAudioOf[o.page.text].audioUrl
                          /\ o.url \in DOMAIN c
SizeOutcome(d, o, c, bodyOver) ==
    IF o.pc = "pageFetch" THEN TRUE
    ELSE IF DeclaresOverLimit(d) THEN RefusedAsTooLarge(o, c, 0)
    ELSE IF o.pc = "pageBody" THEN o.bodyReads = 0 /\ o.error = NULL
    ELSE IF bodyOver THEN RefusedAsTooLarge(o, c, 1)
    ELSE Processed(o, c)

\* C20: a page response that declares a content-length above 2 MB is answered
\* 502 "Page too large to process" before its body is read; one whose body,
\* once read, is longer than 2 MB is answered the same 502; in both cases no
\* tag is extracted, no lyrics are fetched and nothing is cached.  A page of
\* exactly 2 MB, or with a missing or unparsable declared length and a body
\* within the limit, is processed.
C20_SizeLimits == SizeOutcome(inp, out, cache, BodyOverLimit(inp))

\* the same statement with the body measured as worker.js:300 measures it, in
\* characters of the decoded text
C20_SizeLimitsInCharacters == SizeOutcome(inp, out, cache, TextOverLimit(inp))

\* a page of exactly 2 MB that declared no length was answered 200
C20_Witness ==
    /\ ~inp.stated
    /\ inp.resp.contentLength = "abc"
    /\ inp.length = MAX_HTML_SIZE
    /\ inp.bytes = MAX_HTML_SIZE
    /\ out.pc = "done"
    /\ out.status = 200
\* a page declaring one byte over was refused unread, one that declared
\* nothing and was one character over was refused after the read
C20_WitnessDeclared ==
    /\ inp.resp.contentLength = "2097153"
    /\ inp.length = Len(AudioPage)
    /\ out.status = 502
    /\ out.bodyReads = 0
C20_WitnessMeasured ==
    /\ ~inp.stated
    /\ inp.length = MAX_HTML_SIZE + 1
    /\ out.status = 502
    /\ out.bodyReads = 1

\* ------------------------------------------------------------------------
\* SpecLooks: looksLikeSunoLyrics on blocks of text       worker.js:121-132
\* ------------------------------------------------------------------------
\* a block is written from a head, `words` words of one kind laid out `per`
\* to a line, and white space around it
LooksKinds == {"pairs", "long", "repeated", "letters"}
LooksHeads == {"", "verse1: ", "Verse: ", "{\"a\" ", "x:[\"$1 ", "\"$L2 ", "- "}
LooksWords == {16, 20, 40, 60}
LooksPerLine == {7, 10, 20}
LooksPads == {"", " \n"}
LetterNo(k) == SubSeq(LowerLetters, k + 1, k + 1)
\* the k-th word of a kind: pairs and long are all different, repeated is one
\* word over and over, letters are one-letter words
WordNo(kind, k) ==
    IF kind = "pairs" THEN LetterNo(k \div 26) \o LetterNo(k % 26)
    ELSE IF kind = "long" THEN LetterNo(k \div 26) \o LetterNo(k % 26) \o "ing"
    ELSE IF kind = "repeated" THEN "la"
    ELSE "o"
RECURSIVE WordsFrom(_, _, _, _)
WordsFrom(kind, words, per, k) ==
    IF k = words - 1 THEN WordNo(kind, k)
    ELSE WordNo(kind, k) \o (IF (k + 1) % per = 0 THEN "\n" ELSE " ")
            \o WordsFrom(kind, words, per, k + 1)
LooksText(d) == d.pad \o d.head \o WordsFrom(d.kind, d.words, d.per, 0) \o d.pad
LooksDescriptions ==
    [kind : LooksKinds, head : LooksHeads, words : LooksWords, per : LooksPerLine,
     pad : LooksPads]
LooksInputs == {[d |-> d, text |-> LooksText(d)] : d \in LooksDescriptions}

\* what the description says of the trimmed block
LooksLength(d) ==
    Len(d.head) + d.words - 1
        + d.words * (IF d.kind = "long" THEN 5 ELSE IF d.kind = "letters" THEN 1 ELSE 2)
LooksLines(d) == (d.words + d.per - 1) \div d.per
LooksHasFragment(d) == d.head \in {"{\"a\" ", "x:[\"$1 ", "\"$L2 "}
LooksLowerPrefix(d) == d.head = "verse1: "
LooksAnyCasePrefix(d) == d.head \in {"verse1: ", "Verse: "}
LooksTokens(d) == IF d.kind = "letters" THEN 0 ELSE d.words
LooksDistinctTokens(d) ==
    IF d.kind = "letters" THEN 0 ELSE IF d.kind = "repeated" THEN 1 ELSE d.words

NoLooks == [done |-> FALSE, result |-> FALSE]

InitLooks ==
    /\ now = 0
    /\ ticks = 0
    /\ rateLimitMap = EmptyMap
    /\ cache = EmptyMap
    /\ h = [i \in Handlers |-> NoRequest]
    /\ started = 0
    /\ lastCall = EmptyMap
    /\ rl = [ip \in ClientIps |-> NoWindow]
    /\ inp \in LooksInputs
    /\ out = NoLooks

\* looksLikeSunoLyrics(inp.text)                             worker.js:121-132
ApplyLooks ==
    /\ ~out.done
    /\ out' = [done |-> TRUE, result |-> looksLikeSunoLyrics(inp.text)]
    /\ UNCHANGED <<now, ticks, rateLimitMap, cache, h, started, lastCall, rl, inp>>

NextLooks == ApplyLooks
SpecLooks == InitLooks /\ [][NextLooks]_vars

LooksAsStated(d) ==
    /\ LooksLength(d) >= 80
    /\ ~LooksHasFragment(d)
    /\ ~LooksLowerPrefix(d)
    /\ LooksLines(d) >= 4
    /\ LooksDistinctTokens(d) >= 20
LooksAsCoded(d) ==
    /\ LooksLength(d) >= 80
    /\ ~LooksHasFragment(d)
    /\ ~LooksAnyCasePrefix(d)
    /\ LooksLines(d) >= 4
    /\ LooksTokens(d) >= 20

\* C21: looksLikeSunoLyrics(text) is true iff, for the trimmed text, the
\* length is at least 80, none of {" , :["$ and "$L occurs, it does not start
\* with a lowercase-alphanumeric run followed by a colon, it has at least 4
\* non-empty lines, and it holds at least 20 distinct alphabetic word-tokens
\* of length 2 or more.
C21_LooksLikeLyricsIff ==
    out.done => (out.result <=> LooksAsStated(inp.d))

\* the same with the prefix taken in either case and the word-tokens counted
\* with their repetitions
C21_LooksLikeLyricsAsCoded ==
    out.done => (out.result <=> LooksAsCoded(inp.d))

\* the particular cases: a block under 80 characters and a block holding {"
\* are rejected, a plain 6-line block of 40 different words is accepted
C21_LooksLikeLyricsCases ==
    out.done =>
        /\ LooksLength(inp.d) < 80 => ~out.result
        /\ inp.d.head = "{\"a\" " => ~out.result
        /\ (/\ inp.d.words = 40 /\ inp.d.per = 7 /\ inp.d.head \in {"", "- "}
            /\ inp.d.kind \in {"pairs", "long"}) => out.result

\* ------------------------------------------------------------------------
\* SpecResolve: resolveSunoPromptToken on pages of ChunkCount flight chunks
\*                                                        worker.js:152-166
\* ------------------------------------------------------------------------
\* a page is written from the place of the chunk that introduces id 12 (tok),
\* the place of the chunk that holds "clip":{ (clip) and the places of the
\* chunks that are blocks of lyrics (lyr); 0 is "no such chunk"; a place named
\* twice is the token chunk first, the clip chunk second
ChunkCount == 11
TokenPlaces == {0, 2}
ClipPlaces == {0, 1, 5, 11}
LyricPlaces == {1, 4, 9, 10}
ResolveTokens == {"$12", "12", "$1x"}
\* the block of lyrics at place p: 21 three-letter words, 5 to a line, nl between lines
RECURSIVE LyricFrom(_, _, _)
LyricFrom(p, k, nl) ==
    LetterNo(p) \o LetterNo(k) \o "a"
        \o (IF k = 20 THEN ""
            ELSE (IF (k + 1) % 5 = 0 THEN nl ELSE " ") \o LyricFrom(p, k + 1, nl))
ChunkAt(d, p) ==
    IF p = d.tok THEN "12:T1f4,"
    ELSE IF p = d.clip THEN "5:[\\\"$\\\",{\\\"clip\\\":{\\\"id\\\":\\\"x\\\"}}]"
    ELSE IF p \in d.lyr THEN " " \o LyricFrom(p, 0, "\\n") \o "\\n"
    ELSE "a:I[7"
RECURSIVE ChunksHtml(_, _)
ChunksHtml(d, p) ==
    IF p > ChunkCount THEN ""
    ELSE "<script>" \o PushOpen \o ChunkAt(d, p) \o PushClose \o ChunksHtml(d, p + 1)
ResolveInputs ==
    {[tok |-> t, clip |-> c, lyr |-> l \ {t, c}, token |-> k,
      html |-> ChunksHtml([tok |-> t, clip |-> c, lyr |-> l], 1)] :
        t \in TokenPlaces, c \in ClipPlaces, l \in SUBSET LyricPlaces, k \in ResolveTokens}

\* the place the stated order of preference picks, 0 when there is none
PickFallback(d) == IF d.lyr = {} THEN 0 ELSE Min(d.lyr)
PickBeforeClip(d) ==
    IF d.clip # 0 /\ (d.clip - 1) \in d.lyr THEN d.clip - 1 ELSE PickFallback(d)
PickNear(d, near) == IF near # {} THEN Min(near) ELSE PickBeforeClip(d)
PickPlace(d) ==
    PickNear(d, IF d.tok = 0 THEN {}
                ELSE {p \in d.lyr : p > d.tok /\ p <= d.tok + 7})
ExpectedResolved(d, p) ==
    IF d.token # "$12" \/ p = 0 THEN NULL ELSE LyricFrom(p, 0, "\n")

NoResolve == [done |-> FALSE, text |-> NULL]

InitResolve ==
    /\ now = 0
    /\ ticks = 0
    /\ rateLimitMap = EmptyMap
    /\ cache = EmptyMap
    /\ h = [i \in Handlers |-> NoRequest]
    /\ started = 0
    /\ lastCall = EmptyMap
    /\ rl = [ip \in ClientIps |-> NoWindow]
    /\ inp \in ResolveInputs
    /\ out = NoResolve

\* resolveSunoPromptToken(inp.html, inp.token)               worker.js:152-166
ApplyResolve ==
    /\ ~out.done
    /\ out' = [done |-> TRUE, text |-> resolveSunoPromptToken(inp.html, inp.token)]
    /\ UNCHANGED <<now, ticks, rateLimitMap, cache, h, started, lastCall, rl, inp>>

NextResolve == ApplyResolve
SpecResolve == InitResolve /\ [][NextResolve]_vars

\* C22: for a token $N, resolveSunoPromptToken returns the first lyrics-looking
\* chunk among the up to 7 chunks after the first chunk that holds "N:"; else
\* the chunk just before the first chunk that holds "clip":{ if it looks like
\* lyrics; else the first lyrics-looking chunk of all; else null.  A token not
\* of the form $<digits> gives null, and what is returned is a trimmed chunk
\* that looks like lyrics.
C22_ResolveOrder ==
    out.done =>
        /\ out.text = ExpectedResolved(inp, PickPlace(inp))
        /\ out.text # NULL => (looksLikeSunoLyrics(out.text) /\ Trim(out.text) = out.text)

\* no lyrics within 7 chunks of the token chunk: the chunk before the clip
\* chunk was returned, not the first lyrics-looking chunk of the page
C22_Witness ==
    /\ inp.token = "$12"
    /\ inp.tok = 2
    /\ inp.clip = 11
    /\ inp.lyr = {1, 10}
    /\ out.done
    /\ out.text = LyricFrom(10, 0, "\n")
\* the 8th chunk after the token chunk is out of reach: the first chunk of all is returned
C22_WitnessWindow ==
    /\ inp.token = "$12"
    /\ inp.tok = 2
    /\ inp.clip = 0
    /\ inp.lyr = {1, 10}
    /\ out.text = LyricFrom(1, 0, "\n")

\* ------------------------------------------------------------------------
\* SpecJson: extractJsonObject run character by character  worker.js:134-150
\* ------------------------------------------------------------------------
\* worker.js:137-147  one turn of the for loop on the character at o.i
JsonStepBuggy(src, start, o) ==
    IF o.i > Len(src) THEN [o EXCEPT !.pc = "done", !.result = NULL]
    ELSE IF o.inStr
    THEN [o EXCEPT !.i = @ + 1, !.inStr = At(src, o.i) # "\""]
    ELSE IF At(src, o.i) = "\"" THEN [o EXCEPT !.i = @ + 1, !.inStr = TRUE]
    ELSE IF At(src, o.i) = "{" THEN [o EXCEPT !.i = @ + 1, !.depth = @ + 1]
    ELSE IF At(src, o.i) = "}"
         THEN IF o.depth - 1 = 0
              THEN [o EXCEPT !.pc = "done", !.depth = @ - 1, !.result = SubSeq(src, start, o.i)]
              ELSE [o EXCEPT !.i = @ + 1, !.depth = @ - 1]
    ELSE [o EXCEPT !.i = @ + 1]
JsonStep(src, start, o) ==
    IF o.i > Len(src) THEN [o EXCEPT !.pc = "done", !.result = NULL]
    ELSE IF o.inStr
    THEN IF o.esc THEN [o EXCEPT !.i = @ + 1, !.esc = FALSE]
         ELSE IF At(src, o.i) = "\\" THEN [o EXCEPT !.i = @ + 1, !.esc = TRUE]
         ELSE [o EXCEPT !.i = @ + 1, !.inStr = At(src, o.i) # "\""]
    ELSE IF At(src, o.i) = "\"" THEN [o EXCEPT !.i = @ + 1, !.inStr = TRUE]
    ELSE IF At(src, o.i) = "{" THEN [o EXCEPT !.i = @ + 1, !.depth = @ + 1]
    ELSE IF At(src, o.i) = "}"
         THEN IF o.depth - 1 = 0
              THEN [o EXCEPT !.pc = "done", !.depth = @ - 1, !.result = SubSeq(src, start, o.i)]
              ELSE [o EXCEPT !.i = @ + 1, !.depth = @ - 1]
    ELSE [o EXCEPT !.i = @ + 1]

\* complete objects: braces and quotes inside strings, escaped quotes and
\* escaped backslashes, nesting
JsonObjects ==
    { "{}",
      "{\"a\":1}",
      "{\"a\":\"}\"}",
      "{\"a\":\"{\"}",
      "{\"a\":\"\\\"}\"}",
      "{\"a\":\"\\\\\"}",
      "{\"a\":{\"b\":{}},\"c\":\"}{\"}",
      "{{}{}}" }
JsonPrefixes == {"", "x", "}", "\\"}
JsonSuffixes == {"", "}", ",{}", "\"}"}
\* start is the 1-based place of src[start]
JsonWhole ==
    {[src |-> p \o o \o s, start |-> Len(p) + 1, expected |-> o] :
        p \in JsonPrefixes, o \in JsonObjects, s \in JsonSuffixes}
\* an object cut short never closes
JsonCut ==
    UNION {{[src |-> p \o SubSeq(o, 1, n), start |-> Len(p) + 1, expected |-> NULL] :
                n \in 1..(Len(o) - 1), p \in JsonPrefixes} : o \in JsonObjects}
\* a start that is not on an opening brace, or past the end
JsonElsewhere ==
    UNION {{[src |-> w.src, start |-> k, expected |-> NULL] :
                k \in {j \in 1..(Len(w.src) + 1) : At(w.src, j) # "{"}} :
            w \in {x \in JsonWhole : Len(x.src) <= 8}}
JsonInputs == JsonWhole \cup JsonCut \cup JsonElsewhere

NoScan == [pc |-> "call", i |-> 0, depth |-> 0, inStr |-> FALSE, esc |-> FALSE, result |-> NULL]

InitJson ==
    /\ now = 0
    /\ ticks = 0
    /\ rateLimitMap = EmptyMap
    /\ cache = EmptyMap
    /\ h = [i \in Handlers |-> NoRequest]
    /\ started = 0
    /\ lastCall = EmptyMap
    /\ rl = [ip \in ClientIps |-> NoWindow]
    /\ inp \in JsonInputs
    /\ out = NoScan

\* worker.js:135-137  the test of src[start] and the loop's initialisation
JsonCall ==
    /\ out.pc = "call"
    /\ out' = IF At(inp.src, inp.start) # "{" THEN [out EXCEPT !.pc = "done"]
              ELSE [out EXCEPT !.pc = "scan", !.i = inp.start]
    /\ UNCHANGED <<now, ticks, rateLimitMap, cache, h, started, lastCall, rl, inp>>

\* worker.js:137-149  one turn of the loop, or its end
JsonTurn ==
    /\ out.pc = "scan"
    /\ out' = JsonStep(inp.src, inp.start, out)
    /\ UNCHANGED <<now, ticks, rateLimitMap, cache, h, started, lastCall, rl, inp>>

NextJson == JsonCall \/ JsonTurn
SpecJson == InitJson /\ [][NextJson]_vars

JsonScanState ==
    /\ out.depth >= 0
    /\ out.i <= Len(inp.src) + 1
    /\ out.pc = "done" =>
        /\ out.result = inp.expected
        /\ out.result = extractJsonObject(inp.src, inp.start)
\* every step of the scan moves one character on, or ends it
JsonScanAdvances == out.pc = "scan" => (out'.pc = "done" \/ out'.i = out.i + 1)

\* C23: extractJsonObject(src, start) returns the text from start through the
\* first } at which the brace depth is back to zero, braces inside
\* double-quoted strings not counted and a backslash inside a string keeping
\* the next character from ending it; it returns null when src[start] is not
\* { or the input ends first; the depth is never negative and the scan ends.
C23_BalancedObject == []JsonScanState /\ [][JsonScanAdvances]_vars

\* an object whose string holds an escaped quote and a brace was returned whole, the text after it left out
C23_Witness ==
    /\ inp.src = "x{\"a\":\"\\\"}\"}\"}"
    /\ inp.start = 2
    /\ out.pc = "done"
    /\ out.result = "{\"a\":\"\\\"}\"}"
\* an object cut inside a string gave null
C23_WitnessCut ==
    /\ inp.src = "{\"a\":\"}"
    /\ out.pc = "done"
    /\ out.result = NULL
    /\ out.inStr

\* ------------------------------------------------------------------------
\* SpecFilename: the filename extractAudioInfo builds from a page
\*                                              worker.js:220-246, 304-345
\* ------------------------------------------------------------------------
\* written: the og:title content as served; title: the title it stands for
FileTitles ==
    { [written |-> "Song", title |-> "Song"],
      [written |-> "...", title |-> "..."],
      [written |-> " . ", title |-> "."],
      [written |-> ".hidden", title |-> ".hidden"],
      [written |-> "AC/DC: Live?", title |-> "AC/DC: Live?"],
      [written |-> "a &quot;b&quot; &lt;c&gt;", title |-> "a \"b\" <c>"],
      [written |-> NULL, title |-> "audio"] }
\* the artist named in the description "Song by <artist> (@handle). Listen", NULL for no description
FileArtists == {NULL, "Al Bo", "...", "AC/DC", ".38 Special"}
\* stem, the suffix written after its last dot (NULL: no dot anywhere), the
\* suffix lower-cased, and the query
FileAudioUrls ==
    { [stem |-> "https://c.x/a", suffix |-> "mp3", lower |-> "mp3", query |-> ""],
      [stem |-> "https://c.x/a", suffix |-> "OGG", lower |-> "ogg", query |-> "?v=1.wav"],
      [stem |-> "https://c.x/a.b", suffix |-> "webm", lower |-> "webm", query |-> ""],
      [stem |-> "https://c.x/a", suffix |-> "flac#t", lower |-> "flac#t", query |-> ""],
      [stem |-> "https://c.x/a", suffix |-> "exe", lower |-> "exe", query |-> "?f=a.mp3"],
      [stem |-> "https://c.x/a", suffix |-> "x/audio", lower |-> "x/audio", query |-> ""],
      [stem |-> "ogg", suffix |-> NULL, lower |-> NULL, query |-> ""],
      [stem |-> "audio/ogg", suffix |-> NULL, lower |-> NULL, query |-> "?a"] }
FileAudioUrl(u) == u.stem \o (IF u.suffix = NULL THEN "" ELSE "." \o u.suffix) \o u.query
FileTitleElement(t) ==
    IF t.written = NULL THEN ""
    ELSE "<meta property=\"og:title\" content=\"" \o t.written \o "\">"
FileArtistElement(a) ==
    IF a = NULL THEN ""
    ELSE "<meta name=\"description\" content=\"Song by " \o a \o " (@h). Listen\">"
FilePage(t, a, u) ==
    "<meta property=\"og:audio\" content=\"" \o FileAudioUrl(u) \o "\">"
        \o FileTitleElement(t) \o FileArtistElement(a)
FileInputs ==
    {[title |-> t.title, artist |-> a, audio |-> u, html |-> FilePage(t, a, u)] :
        t \in FileTitles, a \in FileArtists, u \in FileAudioUrls}

NoFilename == [done |-> FALSE, info |-> NoInfo]

InitFilename ==
    /\ now = 0
    /\ ticks = 0
    /\ rateLimitMap = EmptyMap
    /\ cache = EmptyMap
    /\ h = [i \in Handlers |-> NoRequest]
    /\ started = 0
    /\ lastCall = EmptyMap
    /\ rl = [ip \in ClientIps |-> NoWindow]
    /\ inp \in FileInputs
    /\ out = NoFilename

\* extractAudioInfo from the page text to the result          worker.js:304-345
ApplyFilename ==
    /\ ~out.done
    /\ out' = [done |-> TRUE, info |-> BuildResult("https://example.com/page", inp.html, NULL)]
    /\ UNCHANGED <<now, ticks, rateLimitMap, cache, h, started, lastCall, rl, inp>>

NextFilename == ApplyFilename
SpecFilename == InitFilename /\ [][NextFilename]_vars

\* the extension the statement gives: the lower-cased suffix after the last
\* dot if it is on the list, mp3 in every other case
StatedExtension(u) ==
    IF u.suffix # NULL /\ u.lower \in AudioExtensions THEN u.lower ELSE "mp3"
\* the same, a URL with no dot at all being its own suffix
WholeExtension(u) ==
    IF u.suffix = NULL
    THEN (IF u.stem \in AudioExtensions THEN u.stem ELSE "mp3")
    ELSE StatedExtension(u)
StatedFilename(d, ext) ==
    IF d.artist # NULL
    THEN sanitiseFilename(d.artist) \o " - " \o sanitiseFilename(d.title) \o "." \o ext
    ELSE sanitiseFilename(d.title) \o "." \o ext

\* C24: every returned filename is sanitise(artist) + " - " + sanitise(title)
\* + "." + ext when an artist was resolved and sanitise(title) + "." + ext
\* otherwise, ext being the lower-cased suffix after the last dot of the audio
\* URL without its query string if that is one of mp3, mp4, m4a, wav, ogg,
\* flac, aac, opus, wma, webm, and mp3 in every other case.
C24_FilenameFormat ==
    out.done =>
        /\ out.info.title = inp.title
        /\ out.info.artist = inp.artist
        /\ out.info.filename = StatedFilename(inp, StatedExtension(inp.audio))

\* C24 amended: the same, where an audio URL that has no dot at all counts
\* whole as its own suffix; the extension is always on the list.
C24_FilenameFormatWholeUrl ==
    out.done =>
        /\ out.info.title = inp.title
        /\ out.info.artist = inp.artist
        /\ out.info.filename = StatedFilename(inp, WholeExtension(inp.audio))
        /\ WholeExtension(inp.audio) \in AudioExtensions

\* an upper-case suffix before a query that ends in another extension
C24_Witness ==
    /\ inp.title = "AC/DC: Live?"
    /\ inp.artist = "Al Bo"
    /\ inp.audio.suffix = "OGG"
    /\ out.done
    /\ out.info.filename = "Al Bo - AC_DC_ Live_.ogg"

FileForbidden == "/\\:*?\"<>|"
\* C25: the filename of every returned AudioInfo is safe as a whole: it holds
\* none of / \ : * ? " < > | and does not begin with a dot or with white
\* space, whatever the title and the artist, those that sanitise to the empty
\* string included.
C25_FilenameSafeAsAWhole ==
    out.done =>
        /\ \A k \in 1..Len(out.info.filename) : ~InChars(At(out.info.filename, k), FileForbidden)
        /\ ~InChars(At(out.info.filename, 1), "." \o WhiteSpace)

\* the same for titles and artists that do not sanitise to the empty string
C25_FilenameSafeNonEmptyParts ==
    (/\ out.done
     /\ sanitiseFilename(inp.title) # ""
     /\ inp.artist # NULL => sanitiseFilename(inp.artist) # "")
        => /\ \A k \in 1..Len(out.info.filename) : ~InChars(At(out.info.filename, k), FileForbidden)
           /\ ~InChars(At(out.info.filename, 1), "." \o WhiteSpace)

\* ------------------------------------------------------------------------
\* The limiter under interleaved requests, in Spec
\* ------------------------------------------------------------------------
\* the map's count is the number of calls made in the window, and the last
\* of them was let through exactly when it was within the first RATE_LIMIT_MAX
LimiterExact(ip) ==
    rl[ip].k > 0 =>
        /\ ip \in DOMAIN rateLimitMap
        /\ rateLimitMap[ip].start = rl[ip].opened
        /\ rateLimitMap[ip].count = rl[ip].k
        /\ rl[ip].admitted = (rl[ip].k <= RATE_LIMIT_MAX)
\* a request the limiter turned away went no further
TurnedAway(r) ==
    (r.entry = "handleInfo" /\ ~r.admitted) =>
        /\ r.pc = "done"
        /\ r.status = 429
        /\ r.urlError = Pending
        /\ r.cacheReads = 0
        /\ r.pageFetches = 0
\* the limiter's map changes only in the step that takes a request in, and
\* then by that one call, which gets past the limiter exactly when it is
\* within the first RATE_LIMIT_MAX of its window: a handler resuming after an
\* await leaves the map alone
LimiterStep ==
    IF started' = started THEN rateLimitMap' = rateLimitMap /\ rl' = rl
    ELSE \E ip \in ClientIps :
            /\ rateLimitMap' = RateLimitAfter(rateLimitMap, ip, now)
            /\ \A other \in ClientIps \ {ip} : rl'[other] = rl[other]
            /\ rl'[ip].k = IF RateLimitResets(rateLimitMap, ip, now) THEN 1 ELSE rl[ip].k + 1
            /\ \A i \in Handlers :
                  h'[i] # h[i] =>
                      /\ h'[i].ip = ip
                      /\ h'[i].admitted = (rl'[ip].k <= RATE_LIMIT_MAX)

\* C26: under every interleaving of request handlers, which switch only at the
\* awaits on the page fetch, the embed fetch and their body reads, the limiter
\* never under-counts: each checkRateLimit call is one atomic read-modify-write,
\* so for each client at most 15 requests per window get past the limiter and
\* reach validation or a fetch.
C26_LimiterNeverUnderCounts ==
    /\ [](\A ip \in ClientIps : LimiterExact(ip))
    /\ [](\A i \in Handlers : TurnedAway(h[i]))
    /\ [][LimiterStep]_vars

\* the 16th request of a client's window was turned away while the 15th was
\* still waiting for its page
C26_Witness ==
    \E i, j \in Handlers :
        /\ h[i].ip = WarmIp /\ h[i].admitted /\ h[i].pc = "pageFetch"
        /\ h[j].ip = WarmIp /\ ~h[j].admitted /\ h[j].status = 429
        /\ rateLimitMap[WarmIp].count = RATE_LIMIT_MAX + 1

\* ------------------------------------------------------------------------
\* Requests for one uncached URL running side by side, in Spec
\* ------------------------------------------------------------------------
\* handler i took a request in and looked its URL up in the cache in this step
LooksUp(i) ==
    /\ started' # started
    /\ h'[i] # h[i]
    /\ h'[i].cacheReads = 1
\* the lookup sees only the cache: a miss leads to a page fetch of its own,
\* whatever the other handlers are waiting for
MissFetches(i) ==
    LooksUp(i) =>
        /\ h'[i].hit = CacheFresh(cache, h'[i].url, now)
        /\ ~h'[i].hit => (/\ h'[i].pc = "pageFetch"
                          /\ h'[i].pageFetches = 1
                          /\ h'[i].fetches = <<h'[i].url>>)
\* a store puts the storing request's own result and the present time under its URL
StoresOwn(i) ==
    (h'[i].pc = "done" /\ h[i].pc = "lyricsDone") =>
        /\ h'[i].cacheWrites = 1
        /\ h'[i].url \in DOMAIN cache'
        /\ cache'[h'[i].url] = [data |-> h'[i].data, time |-> now]
NotCoalesced == \A i \in Handlers : MissFetches(i) /\ StoresOwn(i)
\* a complete result for u
CompleteFor(u, data) ==
    /\ data.pageUrl = u
    /\ data.audioUrl \notin {NULL, ""}
    /\ data.title \notin {NULL, ""}
    /\ data.filename \notin {NULL, ""}
    /\ \E k \in 1..Len(META_TAGS) : data.sourceTag = META_TAGS[k]
    /\ data = BuildResultOf[u, AudioPage, data.lyrics]

\* C27: the cache lookup and the cache store of one request are separated by
\* its fetches, and requests for the same uncached URL are not coalesced: a
\* request that starts after another's miss and before its store misses too
\* and fetches the page itself; the entry holds the result and the time of
\* whichever request stored last, and every stored entry is a complete result
\* for its URL.
C27_NoCoalescing ==
    /\ [][NotCoalesced]_vars
    /\ [](\A u \in DOMAIN cache : CompleteFor(u, cache[u].data) /\ cache[u].time <= now)

\* two requests for the song page, each with its own page fetch; the first
\* stored a result without lyrics, the second stored over it with lyrics
C27_Witness ==
    \E i, j \in Handlers :
        /\ i # j
        /\ h[i].url = SunoSong /\ h[j].url = SunoSong
        /\ h[i].pc = "done" /\ h[j].pc = "done"
        /\ h[i].pageFetches = 1 /\ h[j].pageFetches = 1
        /\ h[i].cacheWrites = 1 /\ h[j].cacheWrites = 1
        /\ h[i].data.lyrics = NULL /\ h[j].data.lyrics # NULL
        /\ cache[SunoSong].data = h[j].data

\* ------------------------------------------------------------------------
\* SpecRouter: the router in front of handleInfo       worker.js:1628-1650
\* ------------------------------------------------------------------------
Methods == {"GET", "OPTIONS"}
Pathnames == {"/api/info", "/api/info/"}
RouterTargets == {NULL, "http://192.168.1.5/", SunoSong}

\* a router that looks at the path before the method
RouteBuggy(method, pathname) ==
    IF pathname = "/api/info" THEN "handleInfo"
    ELSE IF method = "OPTIONS" THEN "preflight"
    ELSE "handleFrontend"

\* worker.js:1633-1648  which handler answers a request
Route(method, pathname) ==
    IF method = "OPTIONS" THEN "preflight"
    ELSE IF pathname = "/api/info" THEN "handleInfo"
    ELSE "handleFrontend"

\* worker.js:1634-1640, 388-392  the answers made without handleInfo
Static(r0, entry, t) ==
    [r0 EXCEPT !.pc = "done", !.entry = entry, !.status = 200, !.startedAt = t]
\* the request as the router receives it
Received(method, pathname) ==
    [IdleHandler EXCEPT !.method = method, !.pathname = pathname]

\* a client sends a request to the worker                worker.js:1629-1649
RouterFetch(i, method, pathname, header, targetUrl) ==
    IF Route(method, pathname) = "handleInfo"
    THEN HandleInfoFrom(i, Received(method, pathname), header, targetUrl)
    ELSE /\ NextFree(i)
         /\ started < MaxRequests
         /\ started' = started + 1
         /\ Step(i, Static(Received(method, pathname), Route(method, pathname), now))
         /\ UNCHANGED <<now, ticks, rateLimitMap, cache, rl, inp, out>>

RouterRequest ==
    \E i \in Handlers, method \in Methods, pathname \in Pathnames,
       header \in IpHeaders, targetUrl \in RouterTargets :
        RouterFetch(i, method, pathname, header, targetUrl)

NextRouter ==
    RouterRequest \/ PageFetch \/ PageBody \/ EmbedFetch \/ EmbedBody \/ Lyrics \/ ClockTick
SpecRouter == Init /\ [][NextRouter]_vars

\* handler i took a request in in this step
TakesIn(i) == started' # started /\ h'[i] # h[i]
\* the limiter counted one more call of the client in this step
CountedOnce(ip) ==
    /\ ip \in DOMAIN rateLimitMap'
    /\ rateLimitMap'[ip].count =
          IF RateLimitResets(rateLimitMap, ip, now) THEN 1 ELSE rateLimitMap[ip].count + 1
    /\ \A k \in DOMAIN rateLimitMap \ {ip} :
          k \in DOMAIN rateLimitMap' /\ rateLimitMap'[k] = rateLimitMap[k]
\* a request for /api/info that is not an OPTIONS request
ForInfo(r) == r.pathname = "/api/info" /\ r.method # "OPTIONS"
\* a request for /api/info is counted, whatever its answer
InfoCounted(i) ==
    (TakesIn(i) /\ ForInfo(h'[i])) =>
        /\ h'[i].entry = "handleInfo"
        /\ CountedOnce(h'[i].ip)
        /\ h'[i].admitted = checkRateLimit(rateLimitMap, h'[i].ip, now)
        /\ h'[i].status = 429 <=> ~h'[i].admitted
\* a request turned away by the limiter does nothing else
RejectedDoesNothing(i) ==
    (TakesIn(i) /\ h'[i].status = 429) =>
        /\ h'[i].pc = "done"
        /\ h'[i].error = TooManyRequests
        /\ h'[i].urlError = Pending
        /\ h'[i].url = NULL
        /\ h'[i].cacheReads = 0 /\ h'[i].cacheWrites = 0
        /\ h'[i].pageFetches = 0 /\ h'[i].embedFetches = 0
        /\ h'[i].fetches = <<>>
        /\ cache' = cache
\* any other request leaves the limiter and the cache alone
OthersTouchNothing(i) ==
    (TakesIn(i) /\ ~ForInfo(h'[i])) =>
        /\ h'[i].entry \in {"preflight", "handleFrontend"}
        /\ h'[i].pc = "done"
        /\ rateLimitMap' = rateLimitMap
        /\ cache' = cache
        /\ h'[i].cacheReads = 0 /\ h'[i].cacheWrites = 0 /\ h'[i].fetches = <<>>
RouterStep ==
    \A i \in Handlers : InfoCounted(i) /\ RejectedDoesNothing(i) /\ OthersTouchNothing(i)
\* an answered /api/info request never stays uncounted; what handleInfo
\* refused for its url, or served from the cache, was let through by the limiter
AnsweredWereCounted ==
    \A i \in Handlers :
        ForInfo(h[i]) =>
            /\ h[i].entry = "handleInfo"
            /\ h[i].ip \in DOMAIN rateLimitMap
            /\ (h[i].status = 400 \/ h[i].hit) => h[i].admitted

\* C28: the rate limiter is consulted first on every /api/info request, before
\* the url parameter is read: every such request, those answered 400 and those
\* served from the cache included, adds one to its client's count; a request
\* answered 429 does no URL validation, no cache read or write and no fetch.
\* Requests for other paths, and OPTIONS requests, touch neither the rate
\* limiter nor the cache.
C28_LimiterFirst == []AnsweredWereCounted /\ [][RouterStep]_vars

\* a request served from the cache, counted as its client's second call
C28_Witness ==
    \E i \in Handlers :
        /\ ForInfo(h[i]) /\ h[i].hit /\ h[i].status = 200
        /\ h[i].ip = "unknown" /\ rateLimitMap["unknown"].count = 2
\* an OPTIONS request for /api/info while a counted one waits for its page:
\* the count stays
C28_WitnessOptions ==
    \E i, j \in Handlers :
        /\ ForInfo(h[i]) /\ h[i].pc = "pageFetch" /\ h[i].ip = "unknown"
        /\ h[j].method = "OPTIONS" /\ h[j].pathname = "/api/info" /\ h[j].pc = "done"
        /\ h[j].startedAt >= h[i].startedAt
        /\ rateLimitMap["unknown"].count = 1
\* the sixteenth call in the window: counted and answered 429
C28_WitnessRejected ==
    \E i \in Handlers :
        /\ h[i].status = 429 /\ h[i].target = NULL
        /\ rateLimitMap[h[i].ip].count = RATE_LIMIT_MAX + 1
\* a request with no url parameter: counted and answered 400
C28_WitnessMissing ==
    \E i \in Handlers :
        /\ h[i].status = 400 /\ h[i].error = MissingUrl
        /\ h[i].ip = "unknown" /\ rateLimitMap["unknown"].count = 1

\* ------------------------------------------------------------------------
\* What the cache holds, in Spec
\* ------------------------------------------------------------------------
\* an entry stored under u is a successful extraction of u
CachedSuccess(u, e) ==
    /\ e.data.pageUrl = u
    /\ e.data.audioUrl \notin {NULL, ""}
    /\ \E k \in 1..Len(META_TAGS) : e.data.sourceTag = META_TAGS[k]
\* no entry is new or changed after the step
NothingStored ==
    \A u \in DOMAIN cache' : u \in DOMAIN cache /\ cache'[u] = cache[u]
\* handler i ends its request in this step with something other than a stored result
EndsUnstored(i) ==
    /\ h'[i] # h[i]
    /\ h'[i].pc = "done"
    /\ h'[i].cacheWrites = 0
\* the answers that are not a fresh success
NotFreshSuccess(r) ==
    \/ r.status \in {400, 404, 429, 502}
    \/ r.hit
FailureStoresNothing(i) ==
    /\ (h'[i] # h[i] /\ h'[i].pc = "done" /\ h'[i].status # 200) => EndsUnstored(i)
    /\ EndsUnstored(i) => (NothingStored /\ NotFreshSuccess(h'[i]))
    /\ (h'[i] # h[i] /\ h'[i].pc # "done") => NothingStored
\* a success is stored as it is answered; without lyrics when the lyrics step failed
SuccessStored(i) ==
    (h[i].pc = "lyricsDone" /\ h'[i].pc = "done") =>
        /\ h'[i].status = 200
        /\ h'[i].url \in DOMAIN cache'
        /\ cache'[h'[i].url].data = h'[i].data
        /\ h[i].lyricsStep \in LyricsFailures => cache'[h'[i].url].data.lyrics = NULL
CacheStep == \A i \in Handlers : FailureStoresNothing(i) /\ SuccessStored(i)

\* C29: only successful extractions are cached: each entry is stored under
\* its data.pageUrl with a non-empty audioUrl and a sourceTag among the four
\* tag names; a NotFound outcome, a failed or oversize fetch, a validation
\* rejection or a rate-limit rejection never creates or overwrites an entry,
\* while a success whose lyrics step failed is cached with lyrics null.
C29_OnlySuccessesCached ==
    /\ [](\A u \in DOMAIN cache : CachedSuccess(u, cache[u]))
    /\ [][CacheStep]_vars

\* the song page's result is cached without lyrics after its embed fetch
\* failed, and the plain page, answered 404, has no entry
C29_Witness ==
    \E i, j \in Handlers :
        /\ h[i].pc = "done" /\ h[i].status = 200 /\ h[i].url = SunoSong
        /\ h[i].lyricsStep = "notOk"
        /\ SunoSong \in DOMAIN cache /\ cache[SunoSong].data.lyrics = NULL
        /\ h[j].pc = "done" /\ h[j].status = 404
        /\ h[j].url \notin DOMAIN cache
\* an oversize page answered 502 and nothing cached
C29_WitnessTooLarge ==
    \E i \in Handlers :
        /\ h[i].pc = "done" /\ h[i].status = 502 /\ h[i].error = PageTooLarge
        /\ cache = EmptyMap

\* ------------------------------------------------------------------------
\* validateUrl on public DNS names, in SpecValidate
\* ------------------------------------------------------------------------
\* the URL validated is one written with this name
NamedBy(names) ==
    \E s \in {"http", "https"}, name \in names, path \in {"/", "/page?x=1"} :
        inp.text = PublicUrl(s, name, path)

\* C30: validateUrl rejects a well-formed http/https URL only when its
\* hostname is the literal localhost or an IP-address literal in a loopback,
\* private, link-local or reserved block; every http/https URL whose hostname
\* is a public DNS name is accepted, whatever characters the name begins with.
C30_PublicNamesAccepted ==
    out # Pending =>
        /\ inp.kind = "public" => out = NULL
        /\ (inp.kind \in {"ipv4", "name", "ipv6", "public"} /\ out # NULL) => inp.private

\* what the code does: a public name is rejected exactly when it begins like
\* an alternative of the pattern
C30_PublicNamesByPrefix ==
    (out # Pending /\ inp.kind = "public") =>
        /\ NamedBy(PatternLikeNames) => out = PrivateAddress
        /\ NamedBy(PlainNames) => out = NULL
        /\ NamedBy(PatternLikeNames) # NamedBy(PlainNames)

\* https://fcbarcelona.com/ has been validated and rejected
C30_WitnessRejected ==
    /\ inp.text = "https://fcbarcelona.com/"
    /\ out = PrivateAddress
\* https://www.fc2.com/ has been validated and accepted
C30_WitnessAccepted ==
    /\ inp.text = "https://www.fc2.com/"
    /\ out = NULL

====
